---- MODULE Spec2Model ----
(***************************************************************************)
(* A model of the text system (ParleyTextSystem: font resolution, glyph    *)
(* queries, line layout) and of the web platform's sprite atlas (WebAtlas) *)
(* of the gpui repository.                                                 *)
(*                                                                         *)
(*   SpecText  : ParleyTextSystem behind its parking_lot RwLock, called    *)
(*               from several threads.                                     *)
(*   SpecAtlas : WebAtlas behind its Mutex, called from several threads.   *)
(***************************************************************************)
EXTENDS Integers, Sequences, FiniteSets, TLC

\* Option<T>: None and Some(v).
None == <<>>
Some(v) == <<v>>

\* No thread holds the guard.
NoThread == "nobody"

\* The step just taken returned from no call.
NoRet == [op |-> "none"]

\* The step just taken returned `val` from thread t's call op(arg).
Ret(t, op, arg, val) == [op |-> op, thread |-> t, arg |-> arg, val |-> val]

(***************************************************************************)
(* Bounds of the model.                                                    *)
(***************************************************************************)
\* The loaded-font table (a Vec that only grows) is explored up to this length.
MaxFonts == 3
\* Tiles one atlas inserts in the explored runs (next_id is a u32 counter).
MaxInserts == 3

\* The longest scene of which every composition of batches is drawn.
MaxBatches == 2

TextThreads == {"t1", "t2"}

(***************************************************************************)
(* Font files.  A font file is what add_fonts / register_fonts receives:   *)
(* its bytes decide the family name, whether the charmap maps 'm', and     *)
(* whether one of the colour tables COLR / CBDT / sbix is present.         *)
(***************************************************************************)
INTER_FONT == "InterVariable.ttf"

FontFiles == {INTER_FONT, "SegoeIcons.ttf", "Broken.ttf", "SegoeEmoji.ttf"}

\* Family names are strings of the source; they are kept as sequences of
\* characters so that str::contains is computed and not assumed.
InterVariable == <<"I","n","t","e","r"," ","V","a","r","i","a","b","l","e">>
SegoeFluentIcons == <<"S","e","g","o","e"," ","F","l","u","e","n","t"," ","I","c","o","n","s">>
BrokenSans == <<"B","r","o","k","e","n"," ","S","a","n","s">>
SegoeUIEmoji == <<"S","e","g","o","e"," ","U","I"," ","E","m","o","j","i">>
NonexistentFamily == <<"N","o","n","e","x","i","s","t","e","n","t"," ","F","a","m","i","l","y">>

FileFamily(file) ==
    CASE file = INTER_FONT -> InterVariable
      [] file = "SegoeIcons.ttf" -> SegoeFluentIcons
      [] file = "Broken.ttf" -> BrokenSans
      [] file = "SegoeEmoji.ttf" -> SegoeUIEmoji

\* charmap.map('m').filter(|g| g.to_u32() != 0).is_some() on the file's bytes.
FileHasM(file) == file \in {INTER_FONT, "SegoeEmoji.ttf"}

\* Byte length of the file (font_data.len()).
FileLen(file) ==
    CASE file = INTER_FONT -> 4
      [] file = "SegoeIcons.ttf" -> 2
      [] file = "Broken.ttf" -> 1
      [] file = "SegoeEmoji.ttf" -> 3

\* Whether the file holds a COLR, CBDT or sbix table.
FileHasColorTables(file) == file = "SegoeEmoji.ttf"

\* Font values: family, weight, style.  Used as the cache key.
Font(family, weight, style) == [family |-> family, weight |-> weight, style |-> style]

FontKeys ==
    { Font(InterVariable, 400, "Normal"),
      Font(NonexistentFamily, 400, "Normal"),
      Font(SegoeFluentIcons, 400, "Normal"),
      Font(BrokenSans, 700, "Italic"),
      Font(SegoeUIEmoji, 400, "Normal") }

\* Result<T>
Ok(v) == [tag |-> "Ok", val |-> v]
Err(msg) == [tag |-> "Err", msg |-> msg]

\* str::contains(needle)
Contains(s, needle) ==
    \E i \in 0..(Len(s) - Len(needle)) : SubSeq(s, i + 1, i + Len(needle)) = needle

(***************************************************************************)
(* State.                                                                  *)
(***************************************************************************)
VARIABLES
    \* ParleyTextSystemState
    font_context,      \* the files registered in font_context.collection
    fonts,             \* Vec<LoadedFont>
    font_selections,   \* HashMap<Font, FontId>: FontKeys -> FontId or None
    \* RwLock<ParleyTextSystemState>
    rw_readers,        \* threads holding a shared read guard
    rw_upgradable,     \* the thread holding the upgradable read guard, or NoThread
    rw_writer,         \* the thread holding the write guard, or NoThread
    \* the calling threads
    tpc,               \* where each thread is inside its call
    targ,              \* the argument of the call in progress
    ret,               \* the return of the step just taken, or NoRet
    \* history: every FontId that font_id returned Ok for each Font
    issued

VARIABLES
    \* WebAtlasState
    next_id,           \* u32
    tiles,             \* HashMap<AtlasKey, AtlasTile>: AtlasKeys -> Option<AtlasTile>
    \* Mutex<WebAtlasState>
    mutex,             \* the thread holding the guard, or NoThread
    \* the calling threads
    apc,               \* where each thread is inside its call
    akey,              \* the key of the call in progress
    asize,             \* the size the build callback returned to the call
    \* history
    build_ret,         \* what build returned to the thread's current (or last) call
    handed,            \* per key: the tiles returned for it since its last remove
    removed            \* every (key, tile) a remove has dropped from the map

VARIABLES
    \* WgpuRenderer
    path_intermediate, \* Option<PathIntermediate>: the size of the texture kept
    globals,           \* what the globals buffer holds
    \* the draw call in progress (or the last one)
    encoder,           \* the commands recorded into the open encoder, or None
    batches,           \* Vec of the scene's batches
    viewport_size,     \* the viewport_size argument
    batch_idx,         \* usize
    is_first_pass,     \* bool
    rpc,               \* where draw is
    \* history of the draw call
    encoders_opened,   \* the encoders the call has created
    submitted,         \* the command buffers the call has submitted
    created,           \* the sizes of the textures the call has created
    iter_start         \* batch_idx when the current iteration of the outer loop began

text_vars == <<font_context, fonts, font_selections, rw_readers, rw_upgradable,
               rw_writer, tpc, targ, issued>>

atlas_vars == <<next_id, tiles, mutex, apc, akey, asize, build_ret, handed, removed>>

render_vars == <<path_intermediate, globals, encoder, batches, viewport_size, batch_idx,
                 is_first_pass, rpc, encoders_opened, submitted, created, iter_start>>

vars == <<text_vars, atlas_vars, render_vars, ret>>

(***************************************************************************)
(* ParleyTextSystem::new                                                   *)
(***************************************************************************)
\* The state right after new(): the embedded Inter font is registered in the
\* collection, no font is loaded, nothing is cached.
NewFontContext == {INTER_FONT}

NewFonts == <<>>

NewFontSelections == [f \in FontKeys |-> None]

(***************************************************************************)
(* The parking_lot RwLock around the state.                                *)
(***************************************************************************)
\* A shared read guard can be taken while no writer holds the lock.
CanRead == rw_writer = NoThread

\* Mutant of CanUpgradableRead: upgradable guards do not exclude each other.
CanUpgradableRead_shared == rw_writer = NoThread

\* An upgradable read guard excludes writers and other upgradable guards,
\* and coexists with shared readers.
CanUpgradableRead == rw_writer = NoThread /\ rw_upgradable = NoThread

\* Mutant of CanWrite: the write guard does not wait for shared readers.
CanWrite_ignores_readers == rw_writer = NoThread /\ rw_upgradable = NoThread

\* A write guard excludes every other guard.
CanWrite == rw_writer = NoThread /\ rw_upgradable = NoThread /\ rw_readers = {}

\* RwLockUpgradableReadGuard::upgrade waits until the shared readers are gone.
CanUpgrade == rw_readers = {}

\* The threads that hold any guard of the lock.
LockHolders ==
    rw_readers \cup ({rw_upgradable} \ {NoThread}) \cup ({rw_writer} \ {NoThread})

(***************************************************************************)
(* resolve_font and its helpers.                                           *)
(***************************************************************************)
\* Mutant of font_name_with_fallbacks: the requested name is kept as it is.
font_name_without_fallbacks(name, system) == name

\* crate::text_system::font_name_with_fallbacks(name, system): the effective
\* family name.  If the requested family is unavailable, the known-good
\* default family is substituted.
font_name_with_fallbacks(name, system) ==
    IF \E file \in font_context : FileFamily(file) = name THEN name ELSE system

\* collection.query(..).set_families([family_name]).matches_with(.. Stop):
\* the first face the collection has for the family, or None.
QueryFirstMatch(collection, family_name) ==
    IF \E file \in collection : FileFamily(file) = family_name
    THEN Some(CHOOSE file \in collection : FileFamily(file) = family_name)
    ELSE None

\* detect_emoji_font(font_data, font_index)
detect_emoji_font(file) == FileHasColorTables(file)

\* A LoadedFont.  font_data is an Arc<Vec<u8>> made by copying the matched
\* blob (blob.data().to_vec()): `bytes` is its content, `ptr` the address of
\* the fresh allocation, which no other live buffer shares.
LoadedFont(file, slot, family_name) ==
    [ bytes       |-> file,
      ptr         |-> [arc |-> slot],
      font_index  |-> 0,
      is_emoji    |-> detect_emoji_font(file),
      family_name |-> family_name ]

\* Mutant of resolve_font: the Font -> FontId mapping is not recorded.
resolve_font_not_recorded(font) ==
    LET family_name == font_name_with_fallbacks(font.family, InterVariable)
        result == QueryFirstMatch(font_context, family_name)
    IN  IF result = None
        THEN [ret |-> Err("could not find font family"), fonts |-> fonts,
              font_selections |-> font_selections]
        ELSE LET file == result[1]
             IN  IF ~FileHasM(file)
                    /\ ~(Contains(family_name, <<"I","c","o","n","s">>)
                         \/ Contains(family_name, <<"S","y","m","b","o","l">>))
                 THEN [ret |-> Err("font has no 'm' character and was not loaded"),
                       fonts |-> fonts, font_selections |-> font_selections]
                 ELSE [ret |-> Ok(Len(fonts)),
                       fonts |-> Append(fonts, LoadedFont(file, Len(fonts), family_name)),
                       font_selections |-> font_selections]

\* Mutant of resolve_font: the FontId is taken after the push.
resolve_font_id_after_push(font) ==
    LET family_name == font_name_with_fallbacks(font.family, InterVariable)
        result == QueryFirstMatch(font_context, family_name)
    IN  IF result = None
        THEN [ret |-> Err("could not find font family"), fonts |-> fonts,
              font_selections |-> font_selections]
        ELSE LET file == result[1]
             IN  IF ~FileHasM(file)
                    /\ ~(Contains(family_name, <<"I","c","o","n","s">>)
                         \/ Contains(family_name, <<"S","y","m","b","o","l">>))
                 THEN [ret |-> Err("font has no 'm' character and was not loaded"),
                       fonts |-> fonts, font_selections |-> font_selections]
                 ELSE [ret |-> Ok(Len(fonts) + 1),
                       fonts |-> Append(fonts, LoadedFont(file, Len(fonts), family_name)),
                       font_selections |->
                           [font_selections EXCEPT ![font] = Some(Len(fonts) + 1)]]

\* Mutant of resolve_font: no exception for icon and symbol fonts.
resolve_font_no_icon_exception(font) ==
    LET family_name == font_name_with_fallbacks(font.family, InterVariable)
        result == QueryFirstMatch(font_context, family_name)
    IN  IF result = None
        THEN [ret |-> Err("could not find font family"), fonts |-> fonts,
              font_selections |-> font_selections]
        ELSE LET file == result[1]
             IN  IF ~FileHasM(file)
                 THEN [ret |-> Err("font has no 'm' character and was not loaded"),
                       fonts |-> fonts, font_selections |-> font_selections]
                 ELSE [ret |-> Ok(Len(fonts)),
                       fonts |-> Append(fonts, LoadedFont(file, Len(fonts), family_name)),
                       font_selections |->
                           [font_selections EXCEPT ![font] = Some(Len(fonts))]]

\* Mutant of resolve_font: the face is pushed and cached before the 'm'
\* check, so a rejected font stays in the table.
resolve_font_push_before_check(font) ==
    LET family_name == font_name_with_fallbacks(font.family, InterVariable)
        result == QueryFirstMatch(font_context, family_name)
    IN  IF result = None
        THEN [ ret   |-> Err("could not find font family"),
               fonts |-> fonts,
               font_selections |-> font_selections ]
        ELSE LET file == result[1]
                 has_m_glyph == FileHasM(file)
                 is_icon_font == Contains(family_name, <<"I","c","o","n","s">>)
                                 \/ Contains(family_name, <<"S","y","m","b","o","l">>)
                 font_id == Len(fonts)
             IN  [ ret   |-> IF ~has_m_glyph /\ ~is_icon_font
                             THEN Err("font has no 'm' character and was not loaded")
                             ELSE Ok(font_id),
                   fonts |-> Append(fonts, LoadedFont(file, font_id, family_name)),
                   font_selections |->
                       [font_selections EXCEPT ![font] = Some(font_id)] ]

\* ParleyTextSystemState::resolve_font(font): the returned Result and the
\* fonts table and cache it leaves.
resolve_font(font) ==
    LET family_name == font_name_with_fallbacks(font.family, InterVariable)
        result == QueryFirstMatch(font_context, family_name)
    IN  IF result = None
        THEN [ ret   |-> Err("could not find font family"),
               fonts |-> fonts,
               font_selections |-> font_selections ]
        ELSE LET file == result[1]
                 has_m_glyph == FileHasM(file)
                 is_icon_font == Contains(family_name, <<"I","c","o","n","s">>)
                                 \/ Contains(family_name, <<"S","y","m","b","o","l">>)
             IN  IF ~has_m_glyph /\ ~is_icon_font
                 THEN [ ret   |-> Err("font has no 'm' character and was not loaded"),
                        fonts |-> fonts,
                        font_selections |-> font_selections ]
                 ELSE LET font_id == Len(fonts)
                      IN  [ ret   |-> Ok(font_id),
                            fonts |-> Append(fonts, LoadedFont(file, font_id, family_name)),
                            font_selections |->
                                [font_selections EXCEPT ![font] = Some(font_id)] ]

(***************************************************************************)
(* font_id                                                                 *)
(***************************************************************************)
\* let lock = self.0.upgradable_read();
FontIdLock(t, font) ==
    /\ tpc[t] = "idle"
    /\ CanUpgradableRead
    /\ font_selections[font] # None \/ Len(fonts) < MaxFonts
    /\ rw_upgradable' = t
    /\ tpc' = [tpc EXCEPT ![t] = "font_id_lookup"]
    /\ targ' = [targ EXCEPT ![t] = font]
    /\ ret' = NoRet
    /\ UNCHANGED <<font_context, fonts, font_selections, rw_readers, rw_writer, issued>>
    /\ UNCHANGED <<atlas_vars, render_vars>>

\* if let Some(font_id) = lock.font_selections.get(font) { return Ok(*font_id); }
FontIdLookup(t) ==
    /\ tpc[t] = "font_id_lookup"
    /\ IF font_selections[targ[t]] # None
       THEN /\ ret' = Ret(t, "font_id", targ[t], Ok(font_selections[targ[t]][1]))
            /\ issued' = [issued EXCEPT ![targ[t]] = @ \cup {font_selections[targ[t]][1]}]
            /\ rw_upgradable' = NoThread
            /\ tpc' = [tpc EXCEPT ![t] = "idle"]
            /\ targ' = [targ EXCEPT ![t] = None]
       ELSE /\ tpc' = [tpc EXCEPT ![t] = "font_id_upgrade"]
            /\ ret' = NoRet
            /\ UNCHANGED <<targ, issued, rw_upgradable>>
    /\ UNCHANGED <<font_context, fonts, font_selections, rw_readers, rw_writer>>
    /\ UNCHANGED <<atlas_vars, render_vars>>

\* let mut lock = RwLockUpgradableReadGuard::upgrade(lock);
FontIdUpgrade(t) ==
    /\ tpc[t] = "font_id_upgrade"
    /\ CanUpgrade
    /\ rw_upgradable' = NoThread
    /\ rw_writer' = t
    /\ tpc' = [tpc EXCEPT ![t] = "font_id_resolve"]
    /\ ret' = NoRet
    /\ UNCHANGED <<font_context, fonts, font_selections, rw_readers, targ, issued>>
    /\ UNCHANGED <<atlas_vars, render_vars>>

\* lock.resolve_font(font), and the write guard dropped at the return.
FontIdResolve(t) ==
    /\ tpc[t] = "font_id_resolve"
    /\ LET r == resolve_font(targ[t])
       IN  /\ fonts' = r.fonts
           /\ font_selections' = r.font_selections
           /\ ret' = Ret(t, "font_id", targ[t], r.ret)
           /\ issued' = IF r.ret.tag = "Ok"
                        THEN [issued EXCEPT ![targ[t]] = @ \cup {r.ret.val}]
                        ELSE issued
    /\ rw_writer' = NoThread
    /\ tpc' = [tpc EXCEPT ![t] = "idle"]
    /\ targ' = [targ EXCEPT ![t] = None]
    /\ UNCHANGED <<font_context, rw_readers, rw_upgradable>>
    /\ UNCHANGED <<atlas_vars, render_vars>>

(***************************************************************************)
(* add_fonts                                                               *)
(***************************************************************************)
\* let mut state = self.0.write();
AddFontsLock(t, files) ==
    /\ tpc[t] = "idle"
    /\ CanWrite
    /\ rw_writer' = t
    /\ tpc' = [tpc EXCEPT ![t] = "add_fonts_write"]
    /\ targ' = [targ EXCEPT ![t] = files]
    /\ ret' = NoRet
    /\ UNCHANGED <<font_context, fonts, font_selections, rw_readers, rw_upgradable, issued>>
    /\ UNCHANGED <<atlas_vars, render_vars>>

\* for font_data in fonts { ..register_fonts(bytes.into(), None); } Ok(())
AddFontsWrite(t) ==
    /\ tpc[t] = "add_fonts_write"
    /\ font_context' = font_context \cup targ[t]
    /\ rw_writer' = NoThread
    /\ ret' = Ret(t, "add_fonts", targ[t], Ok("unit"))
    /\ tpc' = [tpc EXCEPT ![t] = "idle"]
    /\ targ' = [targ EXCEPT ![t] = None]
    /\ UNCHANGED <<fonts, font_selections, rw_readers, rw_upgradable, issued>>
    /\ UNCHANGED <<atlas_vars, render_vars>>

(***************************************************************************)
(* glyph_for_char: a glyph query; font_metrics, typographic_bounds,        *)
(* advance, glyph_raster_bounds and rasterize_glyph take the lock the same *)
(* way (self.0.read()).                                                    *)
(***************************************************************************)
\* let state = self.0.read();
GlyphQueryLock(t, font_id) ==
    /\ tpc[t] = "idle"
    /\ CanRead
    /\ font_id < Len(fonts)
    /\ rw_readers' = rw_readers \cup {t}
    /\ tpc' = [tpc EXCEPT ![t] = "glyph_query_read"]
    /\ targ' = [targ EXCEPT ![t] = font_id]
    /\ ret' = NoRet
    /\ UNCHANGED <<font_context, fonts, font_selections, rw_upgradable, rw_writer, issued>>
    /\ UNCHANGED <<atlas_vars, render_vars>>

\* charmap.map('m').filter(|g| g.to_u32() != 0): Some(glyph) or None.
glyph_for_char_m(font_id) ==
    IF FileHasM(fonts[font_id + 1].bytes) THEN Some("m") ELSE None

GlyphQueryRead(t) ==
    /\ tpc[t] = "glyph_query_read"
    /\ ret' = Ret(t, "glyph_for_char", targ[t], glyph_for_char_m(targ[t]))
    /\ rw_readers' = rw_readers \ {t}
    /\ tpc' = [tpc EXCEPT ![t] = "idle"]
    /\ targ' = [targ EXCEPT ![t] = None]
    /\ UNCHANGED <<font_context, fonts, font_selections, rw_upgradable, rw_writer, issued>>
    /\ UNCHANGED <<atlas_vars, render_vars>>

(***************************************************************************)
(* layout_line                                                             *)
(***************************************************************************)
\* Mutant of Utf8Len: every character counts one byte.
Utf8Len_one_per_char(ch) == 1

\* A &str is a sequence of Unicode scalar values; str::len() is its UTF-8
\* byte length.
Utf8Len(ch) ==
    IF ch < 128 THEN 1 ELSE IF ch < 2048 THEN 2 ELSE IF ch < 65536 THEN 3 ELSE 4

RECURSIVE StrLen(_)
StrLen(text) ==
    IF text = <<>> THEN 0 ELSE Utf8Len(Head(text)) + StrLen(Tail(text))

\* Pixels are kept in thousandths of a pixel: px(16.) is 16000.
px(x) == x

\* skrifa metrics of a face: units_per_em, ascent, descent (font units,
\* descent negative).
FileUnitsPerEm(file) == 1000

FileAscent(file) == IF file = "SegoeEmoji.ttf" THEN 1100 ELSE 950

FileDescent(file) == IF file = "SegoeIcons.ttf" THEN 0 - 300 ELSE 0 - 250

Max(a, b) == IF a >= b THEN a ELSE b

\* FontRun { len, font_id }
FontRun(len, font_id) == [len |-> len, font_id |-> font_id]

\* for run in font_runs { max_ascent = max_ascent.max(metrics.ascent * font_scale); .. }
RECURSIVE MaxAscent(_, _, _)
MaxAscent(font_runs, font_size, acc) ==
    IF font_runs = <<>> THEN acc
    ELSE LET file == fonts[Head(font_runs).font_id + 1].bytes
         IN  MaxAscent(Tail(font_runs), font_size,
                       Max(acc, (FileAscent(file) * font_size) \div FileUnitsPerEm(file)))

RECURSIVE MaxDescent(_, _, _)
MaxDescent(font_runs, font_size, acc) ==
    IF font_runs = <<>> THEN acc
    ELSE LET file == fonts[Head(font_runs).font_id + 1].bytes
         IN  MaxDescent(Tail(font_runs), font_size,
                        Max(acc, ((0 - FileDescent(file)) * font_size) \div FileUnitsPerEm(file)))

\* The font a parley glyph run reports (parley::FontData): the collection's
\* own blob of the file, its length and sub-font index.
ParleyFont(file) == [ptr |-> [blob |-> file], len |-> FileLen(file), index |-> 0]

\* run_font_id_from_parley(parley_font, font_runs, loaded_fonts)
RECURSIVE FirstMatchingFont(_, _, _)
FirstMatchingFont(parley_font, loaded_fonts, idx) ==
    IF idx >= Len(loaded_fonts) THEN None
    ELSE LET loaded == loaded_fonts[idx + 1]
         IN  IF /\ loaded.font_index = parley_font.index
                /\ FileLen(loaded.bytes) = parley_font.len
                /\ loaded.ptr = parley_font.ptr
             THEN Some(idx)
             ELSE FirstMatchingFont(parley_font, loaded_fonts, idx + 1)

\* Mutant of run_font_id_from_parley: the data pointers are not compared.
RECURSIVE FirstFontOfSameSize(_, _, _)
FirstFontOfSameSize(parley_font, loaded_fonts, idx) ==
    IF idx >= Len(loaded_fonts) THEN None
    ELSE LET loaded == loaded_fonts[idx + 1]
         IN  IF /\ loaded.font_index = parley_font.index
                /\ FileLen(loaded.bytes) = parley_font.len
             THEN Some(idx)
             ELSE FirstFontOfSameSize(parley_font, loaded_fonts, idx + 1)

run_font_id_ignoring_pointer(parley_font, font_runs, loaded_fonts) ==
    LET found == FirstFontOfSameSize(parley_font, loaded_fonts, 0)
    IN  IF found # None THEN found[1]
        ELSE IF font_runs # <<>> THEN Head(font_runs).font_id ELSE 0

run_font_id_from_parley(parley_font, font_runs, loaded_fonts) ==
    LET found == FirstMatchingFont(parley_font, loaded_fonts, 0)
    IN  IF found # None THEN found[1]
        ELSE IF font_runs # <<>> THEN Head(font_runs).font_id ELSE 0

\* The glyphs of one parley glyph run: one ShapedGlyph per glyph of each
\* visual cluster, the pen position accumulated from the cluster advances.
RECURSIVE ClusterGlyphs(_, _, _, _)
ClusterGlyphs(glyphs, glyph_x, text_index, is_emoji) ==
    IF glyphs = <<>> THEN <<>>
    ELSE <<[ id       |-> Head(glyphs).id,
             position |-> [x |-> px(glyph_x + Head(glyphs).x), y |-> px(Head(glyphs).y)],
             index    |-> text_index,
             is_emoji |-> is_emoji ]>>
         \o ClusterGlyphs(Tail(glyphs), glyph_x, text_index, is_emoji)

RECURSIVE SumAdvance(_)
SumAdvance(glyphs) ==
    IF glyphs = <<>> THEN 0 ELSE Head(glyphs).advance + SumAdvance(Tail(glyphs))

RECURSIVE RunGlyphs(_, _, _)
RunGlyphs(clusters, glyph_x, is_emoji) ==
    IF clusters = <<>> THEN <<>>
    ELSE ClusterGlyphs(Head(clusters).glyphs, glyph_x, Head(clusters).text_index, is_emoji)
         \o RunGlyphs(Tail(clusters), glyph_x + SumAdvance(Head(clusters).glyphs), is_emoji)

\* total_width = total_width.max(x + glyph.advance), over the glyphs of a run.
RECURSIVE ClusterWidth(_, _, _)
ClusterWidth(glyphs, glyph_x, acc) ==
    IF glyphs = <<>> THEN acc
    ELSE ClusterWidth(Tail(glyphs), glyph_x,
                      Max(acc, glyph_x + Head(glyphs).x + Head(glyphs).advance))

RECURSIVE RunWidth(_, _, _)
RunWidth(clusters, glyph_x, acc) ==
    IF clusters = <<>> THEN acc
    ELSE RunWidth(Tail(clusters), glyph_x + SumAdvance(Head(clusters).glyphs),
                  ClusterWidth(Head(clusters).glyphs, glyph_x, acc))

\* Mutant of MergeRun: every glyph run starts a new ShapedRun.
MergeRun_always_push(shaped_runs, font_id, glyphs) ==
    Append(shaped_runs, [font_id |-> font_id, glyphs |-> glyphs])

\* Merge into existing run if same font, or create new.
MergeRun(shaped_runs, font_id, glyphs) ==
    IF shaped_runs # <<>> /\ shaped_runs[Len(shaped_runs)].font_id = font_id
    THEN [shaped_runs EXCEPT ![Len(shaped_runs)].glyphs = @ \o glyphs]
    ELSE Append(shaped_runs, [font_id |-> font_id, glyphs |-> glyphs])

\* The loop over layout.lines() / line.items(): the ShapedRuns and the total
\* width, from the glyph runs parley reports.
RECURSIVE ExtractRuns(_, _, _, _)
ExtractRuns(glyph_runs, font_runs, shaped_runs, total_width) ==
    IF glyph_runs = <<>>
    THEN [runs |-> shaped_runs, width |-> total_width]
    ELSE LET glyph_run == Head(glyph_runs)
             font_id == run_font_id_from_parley(glyph_run.font, font_runs, fonts)
             is_emoji == font_id < Len(fonts) /\ fonts[font_id + 1].is_emoji
             glyphs == RunGlyphs(glyph_run.clusters, glyph_run.offset, is_emoji)
         IN  ExtractRuns(Tail(glyph_runs), font_runs,
                         MergeRun(shaped_runs, font_id, glyphs),
                         RunWidth(glyph_run.clusters, glyph_run.offset, total_width))

LineLayout(font_size, width, ascent, descent, runs, len) ==
    [ font_size |-> font_size, width |-> width, ascent |-> ascent,
      descent |-> descent, runs |-> runs, len |-> len ]

\* Mutant of layout_line_early: the early return reports no bytes.
layout_line_early_len_zero(text, font_size) ==
    LineLayout(font_size, px(0), px(0), px(0), <<>>, 0)

\* if text.is_empty() || font_runs.is_empty() { return LineLayout { .. } }
layout_line_early(text, font_size) ==
    LineLayout(font_size, px(0), px(0), px(0), <<>>, StrLen(text))

\* The shaping path of layout_line, given the glyph runs parley built.
layout_line_shaped(text, font_size, font_runs, glyph_runs) ==
    LET shaped == ExtractRuns(glyph_runs, font_runs, <<>>, 0)
    IN  LineLayout(font_size, px(shaped.width),
                   px(MaxAscent(font_runs, font_size, 0)),
                   px(MaxDescent(font_runs, font_size, 0)),
                   shaped.runs, StrLen(text))

\* What the shaper (parley) may build for a text: one cluster holding one
\* glyph per character, cut into consecutive glyph runs, each run set in any
\* face of the collection (the shaper selects and substitutes faces itself).
GlyphAdvance(ch) == IF ch < 65536 THEN 8000 ELSE 16000

RECURSIVE OffsetOf(_, _)
OffsetOf(text, i) ==
    IF i <= 1 THEN 0 ELSE OffsetOf(text, i - 1) + GlyphAdvance(text[i - 1])

ParleyCluster(text, i) ==
    [ text_index |-> StrLen(SubSeq(text, 1, i - 1)),
      glyphs     |-> <<[id |-> text[i], x |-> 0, y |-> 0, advance |-> GlyphAdvance(text[i])]>> ]

ParleyGlyphRun(text, first, last, file) ==
    [ font     |-> ParleyFont(file),
      offset   |-> OffsetOf(text, first),
      clusters |-> [i \in 1..(last - first + 1) |-> ParleyCluster(text, first + i - 1)] ]

RECURSIVE ParleyRunsFrom(_, _)
ParleyRunsFrom(text, first) ==
    IF first > Len(text) THEN {<<>>}
    ELSE UNION { { <<ParleyGlyphRun(text, first, last, file)>> \o rest :
                       rest \in ParleyRunsFrom(text, last + 1), file \in font_context } :
                 last \in first..Len(text) }

ParleyLayouts(text) == ParleyRunsFrom(text, 1)

\* The run lists a caller passes for a text: FontIds that font_id issued,
\* lengths that cover the text.
FontRunLists(text) ==
    LET ids == 0..(Len(fonts) - 1)
    IN  {<<>>}
        \cup { <<FontRun(StrLen(text), i)>> : i \in ids }
        \cup UNION { { <<FontRun(StrLen(SubSeq(text, 1, k)), i),
                         FontRun(StrLen(text) - StrLen(SubSeq(text, 1, k)), j)>> :
                           i \in ids, j \in ids } : k \in 1..(Len(text) - 1) }

\* The return of a layout_line call that shaped its text: as Ret, with the
\* glyph runs the parley layout held.
RetShaped(t, arg, glyph_runs, val) ==
    [op |-> "layout_line", thread |-> t, arg |-> arg, val |-> val, layout |-> glyph_runs]

\* The early return of layout_line: no lock is taken.
LayoutLineEarly(t, text, font_size, font_runs) ==
    /\ tpc[t] = "idle"
    /\ text = <<>> \/ font_runs = <<>>
    /\ ret' = Ret(t, "layout_line",
                   [text |-> text, font_size |-> font_size, font_runs |-> font_runs],
                   layout_line_early(text, font_size))
    /\ UNCHANGED <<font_context, fonts, font_selections, rw_readers, rw_upgradable,
                   rw_writer, tpc, targ, issued>>
    /\ UNCHANGED <<atlas_vars, render_vars>>

\* let mut state = self.0.write();
LayoutLineLock(t, text, font_size, font_runs) ==
    /\ tpc[t] = "idle"
    /\ ~(text = <<>> \/ font_runs = <<>>)
    /\ CanWrite
    /\ rw_writer' = t
    /\ tpc' = [tpc EXCEPT ![t] = "layout_line_shape"]
    /\ targ' = [targ EXCEPT ![t] = [text |-> text, font_size |-> font_size, font_runs |-> font_runs]]
    /\ ret' = NoRet
    /\ UNCHANGED <<font_context, fonts, font_selections, rw_readers, rw_upgradable, issued>>
    /\ UNCHANGED <<atlas_vars, render_vars>>

\* The metrics, the parley layout, the extraction of the runs, the return
\* (which drops the write guard).
LayoutLineShape(t) ==
    /\ tpc[t] = "layout_line_shape"
    /\ \E glyph_runs \in ParleyLayouts(targ[t].text) :
           ret' = RetShaped(t, targ[t], glyph_runs,
                            layout_line_shaped(targ[t].text, targ[t].font_size,
                                               targ[t].font_runs, glyph_runs))
    /\ rw_writer' = NoThread
    /\ tpc' = [tpc EXCEPT ![t] = "idle"]
    /\ targ' = [targ EXCEPT ![t] = None]
    /\ UNCHANGED <<font_context, fonts, font_selections, rw_readers, rw_upgradable, issued>>
    /\ UNCHANGED <<atlas_vars, render_vars>>

(***************************************************************************)
(* WebAtlas                                                                *)
(***************************************************************************)
AtlasThreads == {"a1", "a2"}

\* AtlasKey: a monochrome glyph and a colour (emoji) glyph.
AtlasKeys ==
    { [kind |-> "Glyph", glyph_id |-> 7, is_emoji |-> FALSE],
      [kind |-> "Glyph", glyph_id |-> 9, is_emoji |-> TRUE] }

\* Size<DevicePixels>
Size(width, height) == [width |-> width, height |-> height]

\* What a build callback may return: an error, Ok(None), or Ok(Some((size, bytes))).
BuildOutcomes ==
    {Err("build failed"), Ok(None), Ok(Some(Size(4, 8))), Ok(Some(Size(5, 8)))}

AtlasTile(texture_id, tile_id, size) ==
    [ texture_id |-> [index |-> texture_id, kind |-> "Monochrome"],
      tile_id    |-> tile_id,
      padding    |-> 0,
      bounds     |-> [origin |-> [x |-> 0, y |-> 0], size |-> size] ]

\* The build callback has not been invoked by the call.
NotRun == [tag |-> "NotRun"]

\* WebAtlas::new
AtlasInit ==
    /\ next_id = 0
    /\ tiles = [k \in AtlasKeys |-> None]
    /\ mutex = NoThread
    /\ apc = [t \in AtlasThreads |-> "idle"]
    /\ akey = [t \in AtlasThreads |-> None]
    /\ asize = [t \in AtlasThreads |-> None]
    /\ build_ret = [t \in AtlasThreads |-> NotRun]
    /\ handed = [k \in AtlasKeys |-> {}]
    /\ removed = {}

\* The calls that have passed the lookup and may still insert a tile.
InFlight == {t \in AtlasThreads : apc[t] # "idle" /\ apc[t] # "remove_locked"}

\* let mut state = self.0.lock();
GetLock(t, key) ==
    /\ apc[t] = "idle"
    /\ mutex = NoThread
    /\ next_id + 2 * Cardinality(InFlight) + 2 <= 2 * MaxInserts
    /\ mutex' = t
    /\ apc' = [apc EXCEPT ![t] = "get_lookup"]
    /\ akey' = [akey EXCEPT ![t] = key]
    /\ build_ret' = [build_ret EXCEPT ![t] = NotRun]
    /\ ret' = NoRet
    /\ UNCHANGED <<next_id, tiles, asize, handed, removed>>
    /\ UNCHANGED <<text_vars, render_vars>>

\* Mutant of GetLookup: a cached tile is ignored and the call goes on to build.
GetLookup_always_miss(t) ==
    /\ apc[t] = "get_lookup"
    /\ mutex' = NoThread
    /\ ret' = NoRet
    /\ apc' = [apc EXCEPT ![t] = "get_build"]
    /\ UNCHANGED <<akey, handed>>
    /\ UNCHANGED <<next_id, tiles, asize, build_ret, removed>>
    /\ UNCHANGED <<text_vars, render_vars>>

\* Mutant of GetLookup: on a miss the guard is kept while build runs.
GetLookup_keeps_guard(t) ==
    /\ apc[t] = "get_lookup"
    /\ IF tiles[akey[t]] # None
       THEN /\ ret' = Ret(t, "get_or_insert_with", akey[t], Ok(tiles[akey[t]]))
            /\ handed' = [handed EXCEPT ![akey[t]] = @ \cup {tiles[akey[t]][1]}]
            /\ apc' = [apc EXCEPT ![t] = "idle"]
            /\ akey' = [akey EXCEPT ![t] = None]
            /\ mutex' = NoThread
       ELSE /\ ret' = NoRet
            /\ apc' = [apc EXCEPT ![t] = "get_build"]
            /\ UNCHANGED <<akey, handed, mutex>>
    /\ UNCHANGED <<next_id, tiles, asize, build_ret, removed>>
    /\ UNCHANGED <<text_vars, render_vars>>

\* if let Some(tile) = state.tiles.get(key) { return Ok(Some(tile.clone())); }
\* drop(state);
GetLookup(t) ==
    /\ apc[t] = "get_lookup"
    /\ mutex' = NoThread
    /\ IF tiles[akey[t]] # None
       THEN /\ ret' = Ret(t, "get_or_insert_with", akey[t], Ok(tiles[akey[t]]))
            /\ handed' = [handed EXCEPT ![akey[t]] = @ \cup {tiles[akey[t]][1]}]
            /\ apc' = [apc EXCEPT ![t] = "idle"]
            /\ akey' = [akey EXCEPT ![t] = None]
       ELSE /\ ret' = NoRet
            /\ apc' = [apc EXCEPT ![t] = "get_build"]
            /\ UNCHANGED <<akey, handed>>
    /\ UNCHANGED <<next_id, tiles, asize, build_ret, removed>>
    /\ UNCHANGED <<text_vars, render_vars>>

\* Mutant of GetBuild: a build that yields nothing still consumes two ids
\* and records an empty tile for the key.
GetBuild_records_nothing(t, outcome) ==
    /\ apc[t] = "get_build"
    /\ build_ret' = [build_ret EXCEPT ![t] = outcome]
    /\ IF outcome.tag = "Err"
       THEN /\ ret' = Ret(t, "get_or_insert_with", akey[t], outcome)
            /\ apc' = [apc EXCEPT ![t] = "idle"]
            /\ akey' = [akey EXCEPT ![t] = None]
            /\ UNCHANGED <<asize, next_id, tiles>>
       ELSE IF outcome.val = None
       THEN /\ ret' = Ret(t, "get_or_insert_with", akey[t], Ok(None))
            /\ apc' = [apc EXCEPT ![t] = "idle"]
            /\ akey' = [akey EXCEPT ![t] = None]
            /\ next_id' = next_id + 2
            /\ tiles' = [tiles EXCEPT ![akey[t]] =
                             Some(AtlasTile(next_id + 1, next_id + 2, Size(0, 0)))]
            /\ UNCHANGED asize
       ELSE /\ ret' = NoRet
            /\ apc' = [apc EXCEPT ![t] = "get_relock"]
            /\ asize' = [asize EXCEPT ![t] = outcome.val]
            /\ UNCHANGED <<akey, next_id, tiles>>
    /\ UNCHANGED <<mutex, handed, removed>>
    /\ UNCHANGED <<text_vars, render_vars>>

\* let Some((size, _bytes)) = build()? else { return Ok(None); };
GetBuild(t, outcome) ==
    /\ apc[t] = "get_build"
    /\ build_ret' = [build_ret EXCEPT ![t] = outcome]
    /\ IF outcome.tag = "Err"
       THEN /\ ret' = Ret(t, "get_or_insert_with", akey[t], outcome)
            /\ apc' = [apc EXCEPT ![t] = "idle"]
            /\ akey' = [akey EXCEPT ![t] = None]
            /\ UNCHANGED asize
       ELSE IF outcome.val = None
       THEN /\ ret' = Ret(t, "get_or_insert_with", akey[t], Ok(None))
            /\ apc' = [apc EXCEPT ![t] = "idle"]
            /\ akey' = [akey EXCEPT ![t] = None]
            /\ UNCHANGED asize
       ELSE /\ ret' = NoRet
            /\ apc' = [apc EXCEPT ![t] = "get_relock"]
            /\ asize' = [asize EXCEPT ![t] = outcome.val]
            /\ UNCHANGED akey
    /\ UNCHANGED <<next_id, tiles, mutex, handed, removed>>
    /\ UNCHANGED <<text_vars, render_vars>>

\* let mut state = self.0.lock();   (the second one)
GetRelock(t) ==
    /\ apc[t] = "get_relock"
    /\ mutex = NoThread
    /\ mutex' = t
    /\ apc' = [apc EXCEPT ![t] = "get_insert"]
    /\ ret' = NoRet
    /\ UNCHANGED <<next_id, tiles, akey, asize, build_ret, handed, removed>>
    /\ UNCHANGED <<text_vars, render_vars>>

\* state.next_id += 1; let texture_id = state.next_id; state.next_id += 1;
\* let tile_id = state.next_id; and the AtlasTile built from them.  next_id
\* is a u32; the runs explored stay far below u32::MAX.
NewTile(counter, size) ==
    LET texture_id == counter + 1
        tile_id == texture_id + 1
    IN  [tile |-> AtlasTile(texture_id, tile_id, size), next_id |-> tile_id]

\* state.tiles.insert(key.clone(), tile.clone()); Ok(Some(tile))
GetInsert(t) ==
    /\ apc[t] = "get_insert"
    /\ LET new == NewTile(next_id, asize[t][1])
       IN  /\ next_id' = new.next_id
           /\ tiles' = [tiles EXCEPT ![akey[t]] = Some(new.tile)]
           /\ ret' = Ret(t, "get_or_insert_with", akey[t], Ok(Some(new.tile)))
           /\ handed' = [handed EXCEPT ![akey[t]] = @ \cup {new.tile}]
    /\ mutex' = NoThread
    /\ apc' = [apc EXCEPT ![t] = "idle"]
    /\ akey' = [akey EXCEPT ![t] = None]
    /\ asize' = [asize EXCEPT ![t] = None]
    /\ UNCHANGED <<build_ret, removed>>
    /\ UNCHANGED <<text_vars, render_vars>>

\* self.0.lock()  of remove
RemoveLock(t, key) ==
    /\ apc[t] = "idle"
    /\ mutex = NoThread
    /\ mutex' = t
    /\ apc' = [apc EXCEPT ![t] = "remove_locked"]
    /\ akey' = [akey EXCEPT ![t] = key]
    /\ ret' = NoRet
    /\ UNCHANGED <<next_id, tiles, asize, build_ret, handed, removed>>
    /\ UNCHANGED <<text_vars, render_vars>>

\* Mutant of Remove: removing a key also rewinds the id counter.
Remove_rewinds_counter(t) ==
    /\ apc[t] = "remove_locked"
    /\ tiles' = [tiles EXCEPT ![akey[t]] = None]
    /\ removed' = removed \cup {[key |-> akey[t], tile |-> tiles[akey[t]][i]] :
                                    i \in DOMAIN tiles[akey[t]]}
    /\ handed' = [handed EXCEPT ![akey[t]] = {}]
    /\ next_id' = IF tiles[akey[t]] # None THEN next_id - 2 ELSE next_id
    /\ ret' = Ret(t, "remove", akey[t], "unit")
    /\ mutex' = NoThread
    /\ apc' = [apc EXCEPT ![t] = "idle"]
    /\ akey' = [akey EXCEPT ![t] = None]
    /\ UNCHANGED <<asize, build_ret>>
    /\ UNCHANGED <<text_vars, render_vars>>

\* Mutant of Remove: the key's mapping is kept.
Remove_keeps_mapping(t) ==
    /\ apc[t] = "remove_locked"
    /\ ret' = Ret(t, "remove", akey[t], "unit")
    /\ mutex' = NoThread
    /\ apc' = [apc EXCEPT ![t] = "idle"]
    /\ akey' = [akey EXCEPT ![t] = None]
    /\ UNCHANGED <<next_id, tiles, asize, build_ret, handed, removed>>
    /\ UNCHANGED <<text_vars, render_vars>>

\* .tiles.remove(key);  and the guard dropped at the end of the statement
Remove(t) ==
    /\ apc[t] = "remove_locked"
    /\ tiles' = [tiles EXCEPT ![akey[t]] = None]
    /\ removed' = removed \cup {[key |-> akey[t], tile |-> tiles[akey[t]][i]] :
                                    i \in DOMAIN tiles[akey[t]]}
    /\ handed' = [handed EXCEPT ![akey[t]] = {}]
    /\ ret' = Ret(t, "remove", akey[t], "unit")
    /\ mutex' = NoThread
    /\ apc' = [apc EXCEPT ![t] = "idle"]
    /\ akey' = [akey EXCEPT ![t] = None]
    /\ UNCHANGED <<next_id, asize, build_ret>>
    /\ UNCHANGED <<text_vars, render_vars>>

AtlasNext ==
    \E t \in AtlasThreads :
        \/ \E key \in AtlasKeys : GetLock(t, key)
        \/ GetLookup(t)
        \/ \E outcome \in BuildOutcomes : GetBuild(t, outcome)
        \/ GetRelock(t)
        \/ GetInsert(t)
        \/ \E key \in AtlasKeys : RemoveLock(t, key)
        \/ Remove(t)


(***************************************************************************)
(* WgpuRenderer                                                            *)
(***************************************************************************)
\* Bounds<ScaledPixels>
Bounds(x, y, width, height) ==
    [origin |-> [x |-> x, y |-> y], size |-> [width |-> width, height |-> height]]

Min(a, b) == IF a <= b THEN a ELSE b

\* Bounds::union: the smallest rectangle containing both.
BoundsUnion(a, b) ==
    LET x0 == Min(a.origin.x, b.origin.x)
        y0 == Min(a.origin.y, b.origin.y)
        x1 == Max(a.origin.x + a.size.width, b.origin.x + b.size.width)
        y1 == Max(a.origin.y + a.size.height, b.origin.y + b.size.height)
    IN  Bounds(x0, y0, x1 - x0, y1 - y0)

\* Path<ScaledPixels>: its paint order, the number of its vertices and what
\* clipped_bounds() gives for it.
Path(order, vertices, clipped_bounds) ==
    [order |-> order, vertices |-> vertices, clipped_bounds |-> clipped_bounds]

\* PrimitiveBatch: its kind, the number of its primitives and, for Paths,
\* the paths.
Batch(kind, len) == [kind |-> kind, len |-> len, paths |-> <<>>]

PathsBatch(paths) == [kind |-> "Paths", len |-> Len(paths), paths |-> paths]

PathA(order) == Path(order, 3, Bounds(0, 0, 4, 4))
PathB(order) == Path(order, 6, Bounds(2, 6, 4, 2))
PathC(order) == Path(order, 3, Bounds(8, 1, 2, 2))

\* The batches a scene is made of.
Batches ==
    { Batch("Quads", 3), Batch("Quads", 0), Batch("Shadows", 1), Batch("Shadows", 0),
      Batch("Underlines", 1), Batch("Underlines", 0),
      Batch("MonochromeSprites", 1), Batch("PolychromeSprites", 1), Batch("Surfaces", 1),
      PathsBatch(<<>>),
      PathsBatch(<<Path(1, 0, Bounds(0, 0, 4, 4))>>),
      PathsBatch(<<PathA(1), PathB(1)>>),
      PathsBatch(<<PathA(1), PathB(2)>>),
      PathsBatch(<<PathA(1), PathB(2), PathC(1)>>) }

\* Viewport sizes (Size<DevicePixels>).
Viewports == {Size(64, 48), Size(32, 32)}

\* Commands recorded into a command encoder.
BeginPass(label, view, load) ==
    [cmd |-> "begin_render_pass", label |-> label, view |-> view, load |-> load]

EndPass == [cmd |-> "end_render_pass"]

DrawCmd(pipeline, vertices, instances, sprites) ==
    [cmd |-> "draw", pipeline |-> pipeline, vertices |-> vertices,
     instances |-> instances, sprites |-> sprites]

\* Mutant of draw_instanced: an empty batch still records its draw.
draw_instanced_even_empty(pipeline, len) == <<DrawCmd(pipeline, 6, len, <<>>)>>

\* Mutant of draw_instanced: one instance is drawn whatever the batch holds.
draw_instanced_once(pipeline, len) ==
    IF len = 0 THEN <<>> ELSE <<DrawCmd(pipeline, 6, 1, <<>>)>>

\* draw_quads / draw_shadows / draw_underlines: nothing for an empty batch,
\* else render_pass.draw(0..6, 0..len).
draw_instanced(pipeline, len) ==
    IF len = 0 THEN <<>> ELSE <<DrawCmd(pipeline, 6, len, <<>>)>>

draw_quads(quads) == draw_instanced("quad_pipeline", quads.len)

draw_shadows(shadows) == draw_instanced("shadow_pipeline", shadows.len)

draw_underlines(underlines) == draw_instanced("underline_pipeline", underlines.len)

\* Mutant of ensure_path_intermediate: an existing texture is kept whatever
\* its size.
ensure_path_intermediate_keeps_any(intermediate, size) ==
    IF intermediate = None
    THEN [path_intermediate |-> Some(size), created |-> <<size>>]
    ELSE [path_intermediate |-> intermediate, created |-> <<>>]

\* ensure_path_intermediate(viewport_size): the texture kept and the
\* textures created by the call.
ensure_path_intermediate(intermediate, size) ==
    LET needs_recreate == IF intermediate # None THEN intermediate[1] # size ELSE TRUE
    IN  IF needs_recreate
        THEN [path_intermediate |-> Some(size), created |-> <<size>>]
        ELSE [path_intermediate |-> intermediate, created |-> <<>>]

\* The GpuPathVertex count pushed for the paths of a batch.
RECURSIVE PathVertices(_)
PathVertices(paths) ==
    IF paths = <<>> THEN 0 ELSE Head(paths).vertices + PathVertices(Tail(paths))

\* bounds = bounds.union(&path.clipped_bounds()) over paths.iter().skip(1)
RECURSIVE SpanningBounds(_, _)
SpanningBounds(bounds, paths) ==
    IF paths = <<>> THEN bounds
    ELSE SpanningBounds(BoundsUnion(bounds, Head(paths).clipped_bounds), Tail(paths))

\* Mutant of PathSprites: one sprite per path whatever the orders.
PathSprites_per_path(paths) ==
    [i \in 1..Len(paths) |-> paths[i].clipped_bounds]

\* The GpuPathSprites of the composite pass.
PathSprites(paths) ==
    LET first_path == paths[1]
    IN  IF paths[Len(paths)].order = first_path.order
        THEN [i \in 1..Len(paths) |-> paths[i].clipped_bounds]
        ELSE <<SpanningBounds(first_path.clipped_bounds, Tail(paths))>>

\* draw_paths(encoder, target, paths, viewport_size): the commands recorded,
\* the intermediate texture kept and the textures created.
draw_paths(paths, intermediate, size) ==
    IF paths = <<>>
    THEN [cmds |-> <<>>, path_intermediate |-> intermediate, created |-> <<>>]
    ELSE LET ensured == ensure_path_intermediate(intermediate, size)
             vertices == PathVertices(paths)
             sprites == PathSprites(paths)
         IN  IF vertices = 0
             THEN [cmds |-> <<>>, path_intermediate |-> ensured.path_intermediate,
                   created |-> ensured.created]
             ELSE [cmds |->
                     << BeginPass("path_rasterization_pass",
                                  [intermediate |-> ensured.path_intermediate[1]], "Clear"),
                        DrawCmd("path_rasterization_pipeline", vertices, 1, <<>>),
                        EndPass,
                        BeginPass("path_composite_pass", "target", "Load"),
                        DrawCmd("path_composite_pipeline", 6, Len(sprites), sprites),
                        EndPass >>,
                   path_intermediate |-> ensured.path_intermediate,
                   created |-> ensured.created]

\* WgpuRenderer right after construction, no frame drawn yet.
RenderInit ==
    /\ path_intermediate = None
    /\ globals = None
    /\ encoder = None
    /\ encoders_opened = 0
    /\ submitted = <<>>
    /\ created = <<>>
    /\ batches = <<>>
    /\ viewport_size = None
    /\ batch_idx = 0
    /\ is_first_pass = TRUE
    /\ rpc = "idle"
    /\ iter_start = 0

\* draw, up to the batch loop: the globals are written, the encoder is
\* opened, the batches are collected.
DrawBegin(scene, size) ==
    /\ rpc = "idle"
    /\ globals' = Some(size)
    /\ encoder' = Some(<<>>)
    /\ encoders_opened' = 1
    /\ submitted' = <<>>
    /\ created' = <<>>
    /\ batches' = scene
    /\ viewport_size' = Some(size)
    /\ batch_idx' = 0
    /\ is_first_pass' = TRUE
    /\ rpc' = "outer_loop"
    /\ UNCHANGED path_intermediate
    /\ iter_start' = 0
    /\ UNCHANGED <<text_vars, atlas_vars, ret>>

\* Mutant of BeginMainPass: every main pass clears the target.
BeginMainPass_always_clear ==
    /\ rpc = "outer_loop"
    /\ batch_idx < Len(batches)
    /\ encoder' = Some(Append(encoder[1], BeginPass("scene_render_pass", "target", "Clear")))
    /\ is_first_pass' = FALSE
    /\ rpc' = "inner_loop"
    /\ UNCHANGED <<path_intermediate, globals, encoders_opened, submitted, created,
                   batches, viewport_size, batch_idx>>
    /\ iter_start' = batch_idx
    /\ UNCHANGED <<text_vars, atlas_vars, ret>>

\* while batch_idx < batches.len() { begin the main render pass .. }
BeginMainPass ==
    /\ rpc = "outer_loop"
    /\ batch_idx < Len(batches)
    /\ LET load_op == IF is_first_pass THEN "Clear" ELSE "Load"
       IN  encoder' = Some(Append(encoder[1], BeginPass("scene_render_pass", "target", load_op)))
    /\ is_first_pass' = FALSE
    /\ rpc' = "inner_loop"
    /\ UNCHANGED <<path_intermediate, globals, encoders_opened, submitted, created,
                   batches, viewport_size, batch_idx>>
    /\ iter_start' = batch_idx
    /\ UNCHANGED <<text_vars, atlas_vars, ret>>

\* One iteration of the inner loop on a batch that is not a Paths batch.
DrawBatch ==
    /\ rpc = "inner_loop"
    /\ batch_idx < Len(batches)
    /\ LET batch == batches[batch_idx + 1]
           cmds == CASE batch.kind = "Quads" -> draw_quads(batch)
                     [] batch.kind = "Shadows" -> draw_shadows(batch)
                     [] batch.kind = "Underlines" -> draw_underlines(batch)
                     [] OTHER -> <<>>
       IN  /\ batch.kind # "Paths"
           /\ encoder' = Some(encoder[1] \o cmds)
    /\ batch_idx' = batch_idx + 1
    /\ UNCHANGED <<path_intermediate, globals, encoders_opened, submitted, created,
                   batches, viewport_size, is_first_pass, rpc>>
    /\ UNCHANGED iter_start
    /\ UNCHANGED <<text_vars, atlas_vars, ret>>

\* The inner loop ends, at a Paths batch or at the end of the batches, and
\* the render pass is dropped.
EndMainPass ==
    /\ rpc = "inner_loop"
    /\ IF batch_idx < Len(batches) THEN batches[batch_idx + 1].kind = "Paths" ELSE TRUE
    /\ encoder' = Some(Append(encoder[1], EndPass))
    /\ rpc' = "after_pass"
    /\ UNCHANGED <<path_intermediate, globals, encoders_opened, submitted, created,
                   batches, viewport_size, batch_idx, is_first_pass>>
    /\ UNCHANGED iter_start
    /\ UNCHANGED <<text_vars, atlas_vars, ret>>

\* Mutant of DrawPathsBatch: the Paths batch is drawn but the index stays.
DrawPathsBatch_keeps_index ==
    /\ rpc = "after_pass"
    /\ IF batch_idx < Len(batches) /\ batches[batch_idx + 1].kind = "Paths"
       THEN LET drawn == draw_paths(batches[batch_idx + 1].paths, path_intermediate,
                                    viewport_size[1])
            IN  /\ encoder' = Some(encoder[1] \o drawn.cmds)
                /\ path_intermediate' = drawn.path_intermediate
                /\ created' = created \o drawn.created
                /\ UNCHANGED batch_idx
       ELSE UNCHANGED <<encoder, path_intermediate, created, batch_idx>>
    /\ rpc' = "outer_loop"
    /\ UNCHANGED <<globals, encoders_opened, submitted, batches, viewport_size, is_first_pass>>
    /\ UNCHANGED iter_start
    /\ UNCHANGED <<text_vars, atlas_vars, ret>>

\* Mutant of DrawPathsBatch: the path passes go into an encoder of their own,
\* submitted at once.
DrawPathsBatch_own_encoder ==
    /\ rpc = "after_pass"
    /\ IF batch_idx < Len(batches) /\ batches[batch_idx + 1].kind = "Paths"
       THEN LET drawn == draw_paths(batches[batch_idx + 1].paths, path_intermediate,
                                    viewport_size[1])
            IN  /\ submitted' = Append(submitted, drawn.cmds)
                /\ encoders_opened' = encoders_opened + 1
                /\ path_intermediate' = drawn.path_intermediate
                /\ created' = created \o drawn.created
                /\ batch_idx' = batch_idx + 1
       ELSE UNCHANGED <<submitted, encoders_opened, path_intermediate, created, batch_idx>>
    /\ rpc' = "outer_loop"
    /\ UNCHANGED <<globals, encoder, batches, viewport_size, is_first_pass>>
    /\ UNCHANGED iter_start
    /\ UNCHANGED <<text_vars, atlas_vars, ret>>

\* if batch_idx < batches.len() { if let Paths(paths) = .. { draw_paths; batch_idx += 1 } }
DrawPathsBatch ==
    /\ rpc = "after_pass"
    /\ IF batch_idx < Len(batches) /\ batches[batch_idx + 1].kind = "Paths"
       THEN LET drawn == draw_paths(batches[batch_idx + 1].paths, path_intermediate,
                                    viewport_size[1])
            IN  /\ encoder' = Some(encoder[1] \o drawn.cmds)
                /\ path_intermediate' = drawn.path_intermediate
                /\ created' = created \o drawn.created
                /\ batch_idx' = batch_idx + 1
       ELSE UNCHANGED <<encoder, path_intermediate, created, batch_idx>>
    /\ rpc' = "outer_loop"
    /\ UNCHANGED <<globals, encoders_opened, submitted, batches, viewport_size, is_first_pass>>
    /\ UNCHANGED iter_start
    /\ UNCHANGED <<text_vars, atlas_vars, ret>>

\* self.queue.submit(std::iter::once(encoder.finish()));
Submit ==
    /\ rpc = "outer_loop"
    /\ batch_idx >= Len(batches)
    /\ submitted' = Append(submitted, encoder[1])
    /\ encoder' = None
    /\ rpc' = "submitted"
    /\ UNCHANGED <<path_intermediate, globals, encoders_opened, created, batches,
                   viewport_size, batch_idx, is_first_pass>>
    /\ UNCHANGED iter_start
    /\ UNCHANGED <<text_vars, atlas_vars, ret>>

\* draw returns: its locals are gone; the renderer keeps the globals buffer
\* and the intermediate texture.
DrawReturn ==
    /\ rpc = "submitted"
    /\ encoder' = None
    /\ encoders_opened' = 0
    /\ submitted' = <<>>
    /\ created' = <<>>
    /\ batches' = <<>>
    /\ viewport_size' = None
    /\ batch_idx' = 0
    /\ is_first_pass' = TRUE
    /\ rpc' = "idle"
    /\ UNCHANGED <<path_intermediate, globals>>
    /\ iter_start' = 0
    /\ UNCHANGED <<text_vars, atlas_vars, ret>>

\* The scenes drawn: every sequence of at most MaxBatches batches, and the
\* longer ones below.
Scenes ==
    UNION {[1..n -> Batches] : n \in 0..MaxBatches}
    \cup { << Batch("Quads", 3), PathsBatch(<<PathA(1), PathB(1)>>), Batch("Underlines", 1) >>,
           << PathsBatch(<<PathA(1), PathB(2)>>), PathsBatch(<<PathA(1), PathB(1)>>),
              Batch("Shadows", 1) >>,
           << Batch("MonochromeSprites", 1), Batch("Quads", 3),
              PathsBatch(<<PathA(1), PathB(2), PathC(1)>>) >> }

RenderNext ==
    \/ rpc = "idle" /\ \E scene \in Scenes, size \in Viewports : DrawBegin(scene, size)
    \/ BeginMainPass
    \/ DrawBatch
    \/ EndMainPass
    \/ DrawPathsBatch
    \/ Submit
    \/ DrawReturn

(***************************************************************************)
(* Glyph raster bounds and rasterisation.  Lengths are in thousandths of   *)
(* a pixel where the code uses f32, and in whole device pixels where it    *)
(* uses DevicePixels.                                                      *)
(***************************************************************************)
\* Number of subpixel phases per axis (crate constant).
SUBPIXEL_VARIANTS_X == 4

\* f32::floor and f32::ceil on thousandths.
Floor(v) == v \div 1000

Ceil(v) == 0 - ((0 - v) \div 1000)

\* Glyph ids of the font files: the space glyph (no contours) and a glyph
\* with an outline.
GlyphSpace == 3

GlyphOutlined == 80

GlyphIds == {GlyphSpace, GlyphOutlined}

\* The glyph's bounding box in font units, None for a glyph without contours.
FileGlyphBox(file, glyph_id) ==
    IF glyph_id = GlyphOutlined
    THEN Some([x_min |-> 12, y_min |-> 0 - 20, x_max |-> 100, y_max |-> 90])
    ELSE None

\* skrifa::FontRef::from_index succeeds on the file.
FileParses(file) == file # "Broken.ttf"

\* RenderGlyphParams
RenderGlyphParams(font_id, glyph_id, font_size, variant_x, variant_y, scale_factor, is_emoji) ==
    [ font_id          |-> font_id,
      glyph_id         |-> glyph_id,
      font_size        |-> font_size,
      subpixel_variant |-> [x |-> variant_x, y |-> variant_y],
      scale_factor     |-> scale_factor,
      is_emoji         |-> is_emoji ]

\* glyph_metrics.bounds(glyph) at font_size * scale_factor, in thousandths.
GlyphMetricsBounds(file, params) ==
    LET box == FileGlyphBox(file, params.glyph_id)
        font_size == params.font_size * params.scale_factor
        Scaled(u) == (u * font_size) \div FileUnitsPerEm(file)
    IN  IF box = None THEN None
        ELSE Some([x_min |-> Scaled(box[1].x_min), y_min |-> Scaled(box[1].y_min),
                   x_max |-> Scaled(box[1].x_max), y_max |-> Scaled(box[1].y_max)])

\* The body of glyph_raster_bounds under the read lock.
glyph_raster_bounds(params) ==
    LET loaded_font == fonts[params.font_id + 1]
    IN  IF ~FileParses(loaded_font.bytes)
        THEN Err("failed to create font reference")
        ELSE LET bounds == GlyphMetricsBounds(loaded_font.bytes, params)
             IN  IF bounds # None
                 THEN LET rect == bounds[1]
                          x == Floor(rect.x_min)
                          y == Floor(0 - rect.y_max)
                          width == Ceil(rect.x_max) - Floor(rect.x_min)
                          height == Ceil(rect.y_max) - Floor(rect.y_min)
                      IN  Ok(Bounds(x, y, width, height))
                 ELSE Ok(Bounds(0, 0, 0, 0))

\* let state = self.0.read();   (glyph_raster_bounds)
GlyphRasterBoundsLock(t, params) ==
    /\ tpc[t] = "idle"
    /\ CanRead
    /\ params.font_id < Len(fonts)
    /\ rw_readers' = rw_readers \cup {t}
    /\ tpc' = [tpc EXCEPT ![t] = "glyph_raster_bounds_read"]
    /\ targ' = [targ EXCEPT ![t] = params]
    /\ ret' = NoRet
    /\ UNCHANGED <<font_context, fonts, font_selections, rw_upgradable, rw_writer, issued>>
    /\ UNCHANGED <<atlas_vars, render_vars>>

\* The rest of glyph_raster_bounds; the guard drops on return.
GlyphRasterBoundsRead(t) ==
    /\ tpc[t] = "glyph_raster_bounds_read"
    /\ ret' = Ret(t, "glyph_raster_bounds", targ[t], glyph_raster_bounds(targ[t]))
    /\ rw_readers' = rw_readers \ {t}
    /\ tpc' = [tpc EXCEPT ![t] = "idle"]
    /\ targ' = [targ EXCEPT ![t] = None]
    /\ UNCHANGED <<font_context, fonts, font_selections, rw_upgradable, rw_writer, issued>>
    /\ UNCHANGED <<atlas_vars, render_vars>>

\* vec![value; count]
Repeat(value, count) == [i \in 1..count |-> value]

\* swap_rgba_pa_to_bgra on one 4-byte pixel: premultiplied RGBA becomes
\* straight-alpha BGRA.
swap_rgba_pa_to_bgra(pixel) ==
    LET a == pixel[4]
        Straight(c) == IF a = 0 THEN c ELSE (c * 255) \div a
    IN  <<Straight(pixel[3]), Straight(pixel[2]), Straight(pixel[1]), a>>

\* bytes.chunks_exact_mut(4) with swap_rgba_pa_to_bgra applied to each chunk.
RECURSIVE SwapChunks(_)
SwapChunks(bytes) ==
    IF Len(bytes) < 4 THEN bytes
    ELSE swap_rgba_pa_to_bgra(SubSeq(bytes, 1, 4)) \o SwapChunks(SubSeq(bytes, 5, Len(bytes)))

\* A swash image: its placement size and its data.
Image(width, height, data) ==
    [placement |-> [width |-> width, height |-> height], data |-> data]

\* The embedded colour strike of a colour font: 2 by 2 premultiplied RGBA.
ColorStrike == Image(2, 2, <<100, 50, 25, 128>> \o <<100, 50, 25, 128>>
                           \o <<0, 0, 0, 0>> \o <<128, 128, 128, 128>>)

\* What swash's Render::render may return for the glyph: the colour strike
\* when the source is ColorBitmap, the coverage mask of the shifted outline
\* when the source is Outline, None when the source has nothing for the
\* glyph.  For a glyph without contours the outline source yields either
\* nothing or an empty image.
SwashRender(file, params) ==
    LET box == GlyphMetricsBounds(file, params)
        shift_x == (params.subpixel_variant.x * 1000) \div SUBPIXEL_VARIANTS_X
        shift_y == (params.subpixel_variant.y * 1000) \div SUBPIXEL_VARIANTS_X
        offset_x == shift_x \div params.scale_factor
        offset_y == shift_y \div params.scale_factor
    IN  IF params.is_emoji
        THEN IF FileHasColorTables(file) /\ box # None
             THEN {Some(ColorStrike)}
             ELSE {None}
        ELSE IF box # None
             THEN LET width == Ceil(box[1].x_max + offset_x) - Floor(box[1].x_min + offset_x)
                      height == Ceil(box[1].y_max + offset_y) - Floor(box[1].y_min + offset_y)
                  IN  {Some(Image(width, height, Repeat(255, width * height)))}
             ELSE {None, Some(Image(0, 0, <<>>))}

\* if raster_bounds.size.width.0 == 0 || raster_bounds.size.height.0 == 0
\*     { bail!("glyph bounds are empty") }       (before the lock is taken)
RasterizeGlyphEmpty(t, params, raster_bounds) ==
    /\ tpc[t] = "idle"
    /\ raster_bounds.size.width = 0 \/ raster_bounds.size.height = 0
    /\ ret' = Ret(t, "rasterize_glyph", [params |-> params, raster_bounds |-> raster_bounds],
                  Err("glyph bounds are empty"))
    /\ UNCHANGED <<font_context, fonts, font_selections, rw_readers, rw_upgradable,
                   rw_writer, tpc, targ, issued>>
    /\ UNCHANGED <<atlas_vars, render_vars>>

\* let state = self.0.read();   (rasterize_glyph)
RasterizeGlyphLock(t, params, raster_bounds) ==
    /\ tpc[t] = "idle"
    /\ ~(raster_bounds.size.width = 0 \/ raster_bounds.size.height = 0)
    /\ CanRead
    /\ params.font_id < Len(fonts)
    /\ rw_readers' = rw_readers \cup {t}
    /\ tpc' = [tpc EXCEPT ![t] = "rasterize_glyph_read"]
    /\ targ' = [targ EXCEPT ![t] = [params |-> params, raster_bounds |-> raster_bounds]]
    /\ ret' = NoRet
    /\ UNCHANGED <<font_context, fonts, font_selections, rw_upgradable, rw_writer, issued>>
    /\ UNCHANGED <<atlas_vars, render_vars>>

\* The value rasterize_glyph returns once swash has rendered `image`.
rasterize_glyph(params, raster_bounds, image) ==
    LET bitmap_size ==
            Size(raster_bounds.size.width + (IF params.subpixel_variant.x > 0 THEN 1 ELSE 0),
                 raster_bounds.size.height + (IF params.subpixel_variant.y > 0 THEN 1 ELSE 0))
    IN  IF image # None
        THEN LET bytes == IF params.is_emoji THEN SwapChunks(image[1].data)
                                             ELSE image[1].data
                 actual_size == Size(image[1].placement.width, image[1].placement.height)
             IN  Ok([size |-> actual_size, bytes |-> bytes])
        ELSE LET byte_count == IF params.is_emoji
                               THEN bitmap_size.width * 4 * bitmap_size.height
                               ELSE bitmap_size.width * bitmap_size.height
             IN  Ok([size |-> bitmap_size, bytes |-> Repeat(0, byte_count)])

\* The rest of rasterize_glyph under the read lock.
RasterizeGlyphRender(t) ==
    /\ tpc[t] = "rasterize_glyph_read"
    /\ LET params == targ[t].params
           loaded_font == fonts[params.font_id + 1]
       IN  IF ~FileParses(loaded_font.bytes)
           THEN ret' = Ret(t, "rasterize_glyph", targ[t],
                           Err("failed to create swash font ref"))
           ELSE \E image \in SwashRender(loaded_font.bytes, params) :
                   ret' = Ret(t, "rasterize_glyph", targ[t],
                              rasterize_glyph(params, targ[t].raster_bounds, image))
    /\ rw_readers' = rw_readers \ {t}
    /\ tpc' = [tpc EXCEPT ![t] = "idle"]
    /\ targ' = [targ EXCEPT ![t] = None]
    /\ UNCHANGED <<font_context, fonts, font_selections, rw_upgradable, rw_writer, issued>>
    /\ UNCHANGED <<atlas_vars, render_vars>>

(***************************************************************************)
(* The text system: initial state and steps.                               *)
(***************************************************************************)
TextInit ==
    /\ font_context = NewFontContext
    /\ fonts = NewFonts
    /\ font_selections = NewFontSelections
    /\ rw_readers = {}
    /\ rw_upgradable = NoThread
    /\ rw_writer = NoThread
    /\ tpc = [t \in TextThreads |-> "idle"]
    /\ targ = [t \in TextThreads |-> None]
    /\ issued = [f \in FontKeys |-> {}]

Init == TextInit /\ AtlasInit /\ RenderInit /\ ret = NoRet

\* The vectors of font files add_fonts is called with while other threads
\* call into the text system.
RaceAddFontsArgs == {{"SegoeIcons.ttf"}, {"SegoeIcons.ttf", "Broken.ttf"}}

RaceFontKeys == {f \in FontKeys : f.family # SegoeUIEmoji}

FontSizes == {px(16000)}

\* Texts laid out while other threads call into the text system.
RaceTexts == {<<>>, <<233>>}

\* Texts laid out by a single caller: "", "a", "e-acute emoji", "euro a".
Texts == {<<>>, <<97>>, <<233, 128512>>, <<8364, 97>>}

FontIdStep(t, keys) ==
    \/ \E font \in keys : FontIdLock(t, font)
    \/ FontIdLookup(t)
    \/ FontIdUpgrade(t)
    \/ FontIdResolve(t)

AddFontsStep(t, args) ==
    \/ \E files \in args : AddFontsLock(t, files)
    \/ AddFontsWrite(t)

GlyphQueryStep(t) ==
    \/ \E font_id \in 0..(MaxFonts - 1) : GlyphQueryLock(t, font_id)
    \/ GlyphQueryRead(t)

LayoutLineStep(t, texts) ==
    \/ \E text \in texts, font_size \in FontSizes :
         \E font_runs \in FontRunLists(text) :
            \/ LayoutLineEarly(t, text, font_size, font_runs)
            \/ LayoutLineLock(t, text, font_size, font_runs)
    \/ LayoutLineShape(t)

\* The glyphs and phases rasterised: both glyphs of every loaded font, on and
\* off the pixel grid, as coverage and as colour.
GlyphParams ==
    { RenderGlyphParams(font_id, glyph_id, font_size, variant_x, variant_y, 1, is_emoji) :
        font_id \in 0..(MaxFonts - 1), glyph_id \in GlyphIds, font_size \in FontSizes,
        variant_x \in {0, 1}, variant_y \in {0, 1}, is_emoji \in BOOLEAN }

\* The bounds rasterize_glyph is handed: the ones glyph_raster_bounds gives
\* for the glyph, or a caller's own.
RasterBoundsArgs(params) ==
    (IF params.font_id < Len(fonts) /\ glyph_raster_bounds(params).tag = "Ok"
     THEN {glyph_raster_bounds(params).val} ELSE {})
    \cup {Bounds(0, 0, 1, 0), Bounds(0, 0, 1, 2)}

GlyphRasterStep(t, glyph_params) ==
    \/ \E params \in glyph_params : GlyphRasterBoundsLock(t, params)
    \/ GlyphRasterBoundsRead(t)
    \/ \E params \in glyph_params :
         \E raster_bounds \in RasterBoundsArgs(params) :
            RasterizeGlyphEmpty(t, params, raster_bounds)
    \/ \E params \in glyph_params :
         \E raster_bounds \in RasterBoundsArgs(params) :
            RasterizeGlyphLock(t, params, raster_bounds)
    \/ RasterizeGlyphRender(t)

\* The glyph rasterised while other threads call into the text system: the
\* space glyph of every loaded font, on the pixel grid.
RaceGlyphParams ==
    { RenderGlyphParams(font_id, GlyphSpace, font_size, 0, 0, 1, FALSE) :
        font_id \in 0..(MaxFonts - 1), font_size \in FontSizes }

\* Two threads calling into one text system.
TextNext ==
    \E t \in TextThreads :
        \/ FontIdStep(t, RaceFontKeys)
        \/ AddFontsStep(t, RaceAddFontsArgs)
        \/ GlyphQueryStep(t)
        \/ LayoutLineStep(t, RaceTexts)

SpecText == Init /\ [][TextNext]_vars

\* The renderer's thread keeps running: a draw that has begun takes its
\* next step.
DrawStep == BeginMainPass \/ DrawBatch \/ EndMainPass \/ DrawPathsBatch \/ Submit

SpecRenderFair == Init /\ [][RenderNext]_vars /\ WF_vars(DrawStep)

\* Two threads calling every locking operation of one text system, on the
\* embedded face and one registered icon font.
LockFontKeys == {f \in FontKeys : f.family \in {InterVariable, SegoeFluentIcons}}

LockAddFontsArgs == {{"SegoeIcons.ttf"}}

LockNext ==
    \E t \in TextThreads :
        \/ FontIdStep(t, LockFontKeys)
        \/ AddFontsStep(t, LockAddFontsArgs)
        \/ GlyphQueryStep(t)
        \/ GlyphRasterStep(t, RaceGlyphParams)
        \/ LayoutLineStep(t, RaceTexts)

SpecLock == Init /\ [][LockNext]_vars

\* The fonts a single caller registers and resolves before laying out.
LayoutAddFontsArgs == {{"SegoeEmoji.ttf"}}

LayoutFontKeys == {f \in FontKeys : f.family \notin {BrokenSans, SegoeFluentIcons}}

\* One caller, laying out every text of Texts.
LayoutNext ==
    \/ FontIdStep("t1", LayoutFontKeys)
    \/ AddFontsStep("t1", LayoutAddFontsArgs)
    \/ LayoutLineStep("t1", Texts)

SpecLayout == Init /\ [][LayoutNext]_vars

\* One caller resolving fonts and rasterising their glyphs.
RasterNext ==
    \/ FontIdStep("t1", LayoutFontKeys)
    \/ AddFontsStep("t1", LayoutAddFontsArgs)
    \/ GlyphRasterStep("t1", GlyphParams)

SpecRaster == Init /\ [][RasterNext]_vars

\* Two threads calling into one atlas.
SpecAtlas == Init /\ [][AtlasNext]_vars

\* One renderer drawing frame after frame.
SpecRender == Init /\ [][RenderNext]_vars

(***************************************************************************)
(* Properties of font resolution (checked under SpecText).                 *)
(***************************************************************************)
\* The step just taken returned from a font_id call.
FontIdReturned == ret.op = "font_id"

\* Thread t takes the resolve_font step of its font_id call.
ResolveStep(t) == tpc[t] = "font_id_resolve" /\ tpc'[t] = "idle"

\* C1: once font_id has succeeded on a Font, every later font_id call on
\* that Font, whatever calls were made in between, returns the same FontId
\* and leaves the loaded-font table as it was.
C1_FontIdMemoized ==
    [][ (ret'.op = "font_id" /\ issued[ret'.arg] # {})
            => /\ ret'.val.tag = "Ok"
               /\ issued[ret'.arg] = {ret'.val.val}
               /\ issued'[ret'.arg] = issued[ret'.arg]
               /\ fonts' = fonts ]_vars

\* A font_id call returned the FontId of a Font resolved earlier, after other
\* Fonts were resolved in between.
C1_Witness ==
    /\ FontIdReturned
    /\ ret.val.tag = "Ok"
    /\ ret.val.val + 1 < Len(fonts)

\* C2: the loaded-font table only grows; a successful first-time resolution
\* appends exactly one entry and returns the table length before the append;
\* every FontId issued or cached indexes the table, keeps denoting the same
\* LoadedFont, and is issued to one Font only.
C2_TableOnlyGrows ==
    [][ /\ Len(fonts') >= Len(fonts)
        /\ SubSeq(fonts', 1, Len(fonts)) = fonts
        /\ Len(fonts') <= Len(fonts) + 1
        /\ (\E t \in TextThreads : ResolveStep(t) /\ ret'.val.tag = "Ok")
              <=> Len(fonts') = Len(fonts) + 1
        /\ Len(fonts') = Len(fonts) + 1 => ret'.val = Ok(Len(fonts))
        /\ \A f \in FontKeys :
              /\ \A id \in issued'[f] : id < Len(fonts')
              /\ font_selections'[f] # None => font_selections'[f][1] < Len(fonts')
              /\ font_selections'[f] # None => issued'[f] = {font_selections'[f][1]}
              /\ \A g \in FontKeys \ {f} : issued'[f] \cap issued'[g] = {} ]_vars

\* Two Fonts that resolve to the same face (the embedded one) hold two
\* different FontIds.
C2_Witness ==
    \E f, g \in FontKeys :
        /\ f # g
        /\ font_selections[f] # None /\ font_selections[g] # None
        /\ font_selections[f] # font_selections[g]
        /\ fonts[font_selections[f][1] + 1].bytes = fonts[font_selections[g][1] + 1].bytes

\* C3: font_id on an uncached Font returns an error exactly when the query
\* yields no face, or the first matched face has no glyph for 'm' and the
\* effective family name contains neither "Icons" nor "Symbol"; otherwise it
\* returns Ok with a FontId.
C3_ErrorExactlyWhen ==
    [][ \A t \in TextThreads :
          ResolveStep(t) =>
            LET family_name == font_name_with_fallbacks(targ[t].family, InterVariable)
                faces == {file \in font_context : FileFamily(file) = family_name}
                rejected ==
                    \/ faces = {}
                    \/ \E file \in faces :
                          /\ ~FileHasM(file)
                          /\ ~Contains(family_name, <<"I","c","o","n","s">>)
                          /\ ~Contains(family_name, <<"S","y","m","b","o","l">>)
            IN  /\ ret'.op = "font_id" /\ ret'.thread = t /\ ret'.arg = targ[t]
                /\ ret'.val.tag \in {"Ok", "Err"}
                /\ ret'.val.tag = "Err" <=> rejected
                /\ ret'.val.tag = "Ok" => ret'.val.val \in 0..(Len(fonts') - 1) ]_vars

\* A font_id call on a face without 'm' whose name is no icon font's
\* returned an error, while an icon font without 'm' is loaded.
C3_Witness ==
    /\ FontIdReturned
    /\ ret.val.tag = "Err"
    /\ ret.arg.family = BrokenSans
    /\ \E i \in 1..Len(fonts) : fonts[i].family_name = SegoeFluentIcons

\* C4: on a text system whose collection holds only the embedded default
\* font, resolving a Font whose family is not available returns Ok with a
\* FontId that refers to the embedded default font.
C4_FallbackToEmbedded ==
    [][ \A t \in TextThreads :
          ( /\ ResolveStep(t)
            /\ font_context = NewFontContext
            /\ \A file \in font_context : FileFamily(file) # targ[t].family )
          => /\ ret'.val.tag = "Ok"
             /\ fonts'[ret'.val.val + 1].bytes = INTER_FONT
             /\ fonts'[ret'.val.val + 1].family_name = InterVariable ]_vars

\* font_id(Font{"Nonexistent Family", 400, Normal}) returned the FontId of
\* an entry just loaded from the embedded font.
C4_Witness ==
    /\ FontIdReturned
    /\ ret.arg = Font(NonexistentFamily, 400, "Normal")
    /\ font_context = NewFontContext
    /\ ret.val.tag = "Ok"
    /\ ret.val.val = Len(fonts) - 1
    /\ fonts[Len(fonts)].bytes = INTER_FONT

(***************************************************************************)
(* Properties of the tile atlas (checked under SpecAtlas).                 *)
(***************************************************************************)
\* The step just taken returned from get_or_insert_with.
GetReturned == ret.op = "get_or_insert_with"

\* Thread t takes the lookup step of its get_or_insert_with call.
LookupStep(t) == apc[t] = "get_lookup" /\ apc'[t] # "get_lookup"

\* C5: for a key that has a cached tile, get_or_insert_with returns that
\* same tile, equal to the one returned when it was inserted, without
\* invoking the build callback and without changing the atlas.
C5_CacheHitReturnsTile ==
    [][ \A t \in AtlasThreads :
          (LookupStep(t) /\ tiles[akey[t]] # None)
          => /\ ret' = Ret(t, "get_or_insert_with", akey[t], Ok(tiles[akey[t]]))
             /\ tiles[akey[t]][1] \in handed[akey[t]]
             /\ build_ret'[t] = NotRun
             /\ apc'[t] = "idle"
             /\ tiles' = tiles
             /\ next_id' = next_id ]_vars

\* A get_or_insert_with call returned the cached tile of its key without
\* having invoked build.
C5_Witness ==
    /\ GetReturned
    /\ ret.val.tag = "Ok"
    /\ ret.val.val # None
    /\ build_ret[ret.thread] = NotRun
    /\ tiles[ret.arg] = ret.val.val

\* C6: when the build callback of get_or_insert_with yields Ok(None), the
\* call returns None and the atlas state (the key -> tile map and the id
\* counter) is unchanged, so no mapping is recorded for the key.
C6_BuildNoneLeavesAtlas ==
    [][ \A t \in AtlasThreads :
          (apc[t] = "get_build" /\ build_ret'[t] = Ok(None))
          => /\ ret' = Ret(t, "get_or_insert_with", akey[t], Ok(None))
             /\ apc'[t] = "idle"
             /\ tiles' = tiles
             /\ next_id' = next_id ]_vars

\* A call whose build yielded nothing returned None and its key is still
\* uncached.
C6_Witness ==
    /\ GetReturned
    /\ ret.val = Ok(None)
    /\ build_ret[ret.thread] = Ok(None)
    /\ tiles[ret.arg] = None

C8_RacersShareTile ==
    \A k \in AtlasKeys :
        tiles[k] # None => handed[k] \subseteq {tiles[k][1]}

\* Two tiles have been handed out for one key with no remove in between.
C8_Witness ==
    \E k \in AtlasKeys : Cardinality(handed[k]) = 2

(***************************************************************************)
(* Properties of layout_line (checked under SpecLayout).                   *)
(***************************************************************************)
\* The step just taken returned from layout_line.
LayoutLineReturned == ret.op = "layout_line"

\* The UTF-8 encodings of the characters used in the texts:
\* 'a' = 61, U+00E9 = C3 A9, U+20AC = E2 82 AC, U+1F600 = F0 9F 98 80.
Utf8Bytes ==
    (97 :> <<97>>) @@ (233 :> <<195, 169>>) @@ (8364 :> <<226, 130, 172>>)
        @@ (128512 :> <<240, 159, 152, 128>>)

RECURSIVE Utf8Encode(_)
Utf8Encode(text) ==
    IF text = <<>> THEN <<>> ELSE Utf8Bytes[Head(text)] \o Utf8Encode(Tail(text))

\* C9: layout_line called with empty text or with an empty run list returns
\* at once, taking no lock, a layout with width 0, ascent 0, descent 0, no
\* runs, the requested font size, and len equal to the byte length of the
\* text.
C9_EarlyReturnLayout ==
    [][ ( /\ ret'.op = "layout_line"
          /\ (ret'.arg.text = <<>> \/ ret'.arg.font_runs = <<>>) )
        => /\ ret'.val.width = 0
           /\ ret'.val.ascent = 0
           /\ ret'.val.descent = 0
           /\ ret'.val.runs = <<>>
           /\ ret'.val.font_size = ret'.arg.font_size
           /\ ret'.val.len = Len(Utf8Encode(ret'.arg.text))
           /\ tpc[ret'.thread] = "idle"
           /\ UNCHANGED <<rw_readers, rw_upgradable, rw_writer, tpc, fonts,
                          font_selections, font_context>> ]_vars

\* layout_line returned early for a non-empty text given no runs, and for
\* this text the byte length differs from the character count.
C9_Witness ==
    /\ LayoutLineReturned
    /\ ret.arg.text = <<233, 128512>>
    /\ ret.arg.font_runs = <<>>
    /\ ret.val.len = 6

\* C10: every LineLayout returned by layout_line, on the early-return path
\* and on the shaping path, has len equal to the exact UTF-8 byte length of
\* the input text, and what is returned is a layout, not an error.
C10_LenIsByteLength ==
    LayoutLineReturned
    => /\ DOMAIN ret.val = {"font_size", "width", "ascent", "descent", "runs", "len"}
       /\ ret.val.len = Len(Utf8Encode(ret.arg.text))

\* layout_line shaped a text holding multi-byte characters into glyph runs
\* and returned its byte length.
C10_Witness ==
    /\ LayoutLineReturned
    /\ ret.arg.font_runs # <<>>
    /\ ret.val.runs # <<>>
    /\ Len(ret.arg.text) = 2
    /\ ret.val.len = 6

\* The glyph ids of a sequence of ShapedRuns, in order.
RECURSIVE ShapedGlyphIds(_)
ShapedGlyphIds(runs) ==
    IF runs = <<>> THEN <<>>
    ELSE [i \in 1..Len(Head(runs).glyphs) |-> Head(runs).glyphs[i].id]
         \o ShapedGlyphIds(Tail(runs))

\* The glyph ids of a parley layout, cluster by cluster, run by run.
RECURSIVE ClusterGlyphIds(_)
ClusterGlyphIds(clusters) ==
    IF clusters = <<>> THEN <<>>
    ELSE [i \in 1..Len(Head(clusters).glyphs) |-> Head(clusters).glyphs[i].id]
         \o ClusterGlyphIds(Tail(clusters))

RECURSIVE LayoutGlyphIds(_)
LayoutGlyphIds(glyph_runs) ==
    IF glyph_runs = <<>> THEN <<>>
    ELSE ClusterGlyphIds(Head(glyph_runs).clusters) \o LayoutGlyphIds(Tail(glyph_runs))

NoRepeatedFontId(runs) ==
    \A i \in 1..(Len(runs) - 1) : runs[i].font_id # runs[i + 1].font_id

\* The merge step applied to glyph runs whose recovered FontIds are ids,
\* the k-th run holding the one glyph k.
RECURSIVE MergeAll(_, _, _)
MergeAll(ids, k, shaped_runs) ==
    IF k > Len(ids) THEN shaped_runs
    ELSE MergeAll(ids, k + 1, MergeRun(shaped_runs, ids[k], <<[id |-> k]>>))

\* The sequences of at most three recovered FontIds.
RecoveredIdSeqs == UNION {[1..n -> 0..(MaxFonts - 1)] : n \in 0..3}

\* C11: in every LineLayout returned by layout_line no two consecutive
\* ShapedRuns have the same FontId and the glyphs are those of the shaper's
\* glyph runs in the same order; and for any sequence of recovered FontIds
\* the merge step starts a new run exactly where the FontId changes.
C11_MergeInvariant ==
    /\ (ret.op = "layout_line" /\ "layout" \in DOMAIN ret)
          => /\ NoRepeatedFontId(ret.val.runs)
             /\ ShapedGlyphIds(ret.val.runs) = LayoutGlyphIds(ret.layout)
             /\ ShapedGlyphIds(ret.val.runs) = ret.arg.text
    /\ (ret.op = "layout_line" /\ "layout" \notin DOMAIN ret)
          => ret.val.runs = <<>>
    /\ \A ids \in RecoveredIdSeqs :
          LET runs == MergeAll(ids, 1, <<>>)
          IN  /\ NoRepeatedFontId(runs)
              /\ ShapedGlyphIds(runs) = [k \in 1..Len(ids) |-> k]
              /\ Len(runs) = Cardinality({k \in 1..Len(ids) : k = 1 \/ ids[k] # ids[k - 1]})
              /\ \A r \in 1..Len(runs) : \A g \in 1..Len(runs[r].glyphs) :
                    ids[runs[r].glyphs[g].id] = runs[r].font_id

\* layout_line returned one ShapedRun holding the glyphs of two glyph runs
\* that the shaper set in two different faces.
C11_Witness ==
    /\ ret.op = "layout_line"
    /\ "layout" \in DOMAIN ret
    /\ Len(ret.layout) = 2
    /\ ret.layout[1].font # ret.layout[2].font
    /\ Len(ret.val.runs) = 1
    /\ Len(ret.val.runs[1].glyphs) = 2

(***************************************************************************)
(* Properties of the renderer (checked under SpecRender).                  *)
(***************************************************************************)
\* The GPU work in a list of commands: its draws and its path rasterize
\* passes, in order.  Instance counts are kept for the instanced draws.
IsWork(c) ==
    \/ c.cmd = "draw"
    \/ c.cmd = "begin_render_pass" /\ c.label = "path_rasterization_pass"

WorkItem(c) ==
    IF c.cmd = "begin_render_pass" THEN [work |-> "rasterize pass", instances |-> 0]
    ELSE IF c.pipeline = "path_rasterization_pipeline"
    THEN [work |-> "rasterize draw", instances |-> 0]
    ELSE IF c.pipeline = "path_composite_pipeline"
    THEN [work |-> "composite draw", instances |-> 0]
    ELSE [work |-> <<c.pipeline, c.vertices>>, instances |-> c.instances]

WorkOf(cmds) ==
    LET work == SelectSeq(cmds, IsWork)
    IN  [i \in 1..Len(work) |-> WorkItem(work[i])]

\* The work a batch calls for.
BatchWork(batch) ==
    IF batch.kind \in {"Quads", "Shadows", "Underlines"} /\ batch.len > 0
    THEN LET pipeline == CASE batch.kind = "Quads" -> "quad_pipeline"
                           [] batch.kind = "Shadows" -> "shadow_pipeline"
                           [] batch.kind = "Underlines" -> "underline_pipeline"
         IN  <<[work |-> <<pipeline, 6>>, instances |-> batch.len]>>
    ELSE IF batch.kind = "Paths" /\ \E i \in 1..Len(batch.paths) : batch.paths[i].vertices > 0
    THEN << [work |-> "rasterize pass", instances |-> 0],
            [work |-> "rasterize draw", instances |-> 0],
            [work |-> "composite draw", instances |-> 0] >>
    ELSE <<>>

RECURSIVE SceneWork(_)
SceneWork(scene) ==
    IF scene = <<>> THEN <<>> ELSE BatchWork(Head(scene)) \o SceneWork(Tail(scene))

\* Quads of 3, Paths of 2 same-order paths, Underlines of 1.
QuadsPathsUnderlines ==
    << Batch("Quads", 3), PathsBatch(<<PathA(1), PathB(1)>>), Batch("Underlines", 1) >>

DrawsOf(cmds) ==
    LET IsDraw(c) == c.cmd = "draw"
        draws == SelectSeq(cmds, IsDraw)
    IN  [i \in 1..Len(draws) |-> <<draws[i].pipeline, draws[i].vertices, draws[i].instances>>]

\* C12: draw issues GPU work in the order of the scene's batches, each batch
\* once: one 6-vertex instanced draw with the batch length as instance count
\* for a non-empty Quads, Shadows or Underlines batch, one rasterize pass
\* followed by one composite draw for a Paths batch with vertices; the
\* scene [Quads of 3, Paths of 2 same-order paths, Underlines of 1] gives
\* quad draw (3), rasterize pass, composite draw (2), underline draw (1).
C12_WorkFollowsBatches ==
    /\ encoder # None
          => WorkOf(encoder[1]) = SceneWork(SubSeq(batches, 1, batch_idx))
    /\ rpc = "submitted"
          => /\ Len(submitted) = 1
             /\ WorkOf(submitted[1]) = SceneWork(batches)
             /\ batches = QuadsPathsUnderlines
                   => DrawsOf(submitted[1]) =
                        << <<"quad_pipeline", 6, 3>>,
                           <<"path_rasterization_pipeline", 9, 1>>,
                           <<"path_composite_pipeline", 6, 2>>,
                           <<"underline_pipeline", 6, 1>> >>

\* The frame of the scene [Quads of 3, Paths of 2, Underlines of 1] has been
\* submitted with its four draws.
C12_Witness ==
    /\ rpc = "submitted"
    /\ batches = QuadsPathsUnderlines
    /\ Len(DrawsOf(submitted[1])) = 4

\* draw is about to handle the Paths batch at batch_idx.
AtPathsBatch ==
    /\ rpc = "after_pass"
    /\ batch_idx < Len(batches)
    /\ batches[batch_idx + 1].kind = "Paths"

\* The composite draws among the commands the step records.
CompositeDraws ==
    LET IsComposite(c) == c.cmd = "draw" /\ c.pipeline = "path_composite_pipeline"
    IN  SelectSeq(SubSeq(encoder'[1], Len(encoder[1]) + 1, Len(encoder'[1])), IsComposite)

Left(b) == b.origin.x
Top(b) == b.origin.y
Right(b) == b.origin.x + b.size.width
Bottom(b) == b.origin.y + b.size.height

\* r is the smallest rectangle containing every rectangle of the sequence bs.
Spans(r, bs) ==
    /\ \A i \in 1..Len(bs) :
          /\ Left(r) <= Left(bs[i]) /\ Top(r) <= Top(bs[i])
          /\ Right(r) >= Right(bs[i]) /\ Bottom(r) >= Bottom(bs[i])
    /\ \E i \in 1..Len(bs) : Left(r) = Left(bs[i])
    /\ \E i \in 1..Len(bs) : Top(r) = Top(bs[i])
    /\ \E i \in 1..Len(bs) : Right(r) = Right(bs[i])
    /\ \E i \in 1..Len(bs) : Bottom(r) = Bottom(bs[i])

ClippedBounds(paths) == [i \in 1..Len(paths) |-> paths[i].clipped_bounds]

HasVertices(paths) == \E i \in 1..Len(paths) : paths[i].vertices > 0

\* C13: for a Paths batch of two paths with different paint orders, the
\* composite pass draws exactly one sprite instance, whose rectangle is the
\* union of the two paths' clipped bounds.
C13_TwoOrdersOneSprite ==
    [][ ( /\ AtPathsBatch
          /\ Len(batches[batch_idx + 1].paths) = 2
          /\ batches[batch_idx + 1].paths[1].order # batches[batch_idx + 1].paths[2].order
          /\ HasVertices(batches[batch_idx + 1].paths) )
        => /\ Len(CompositeDraws) = 1
           /\ CompositeDraws[1].instances = 1
           /\ Len(CompositeDraws[1].sprites) = 1
           /\ Spans(CompositeDraws[1].sprites[1],
                    ClippedBounds(batches[batch_idx + 1].paths)) ]_vars

\* A frame holds a composite draw of one sprite that is the clipped bounds
\* of neither path of its two-path batch.
C13_Witness ==
    /\ rpc = "submitted"
    /\ batches = <<PathsBatch(<<PathA(1), PathB(2)>>)>>
    /\ \E i \in 1..Len(submitted[1]) :
          /\ submitted[1][i].cmd = "draw"
          /\ submitted[1][i].pipeline = "path_composite_pipeline"
          /\ submitted[1][i].instances = 1
          /\ submitted[1][i].sprites = <<Bounds(0, 0, 6, 8)>>

\* C14: for every Paths batch, the composite pass uses one sprite per path,
\* each with that path's clipped bounds, in path order, if and only if all
\* paths of the batch share one paint order; otherwise it uses a single
\* sprite spanning all the paths' clipped bounds.
C14_PerPathIffSameOrder ==
    [][ (AtPathsBatch /\ HasVertices(batches[batch_idx + 1].paths))
        => LET paths == batches[batch_idx + 1].paths
               same == \A i, j \in 1..Len(paths) : paths[i].order = paths[j].order
           IN  /\ Len(CompositeDraws) = 1
               /\ same => CompositeDraws[1].sprites = ClippedBounds(paths)
               /\ ~same => /\ Len(CompositeDraws[1].sprites) = 1
                            /\ Spans(CompositeDraws[1].sprites[1], ClippedBounds(paths))
               /\ CompositeDraws[1].instances = Len(CompositeDraws[1].sprites) ]_vars

\* A frame holds a composite draw of three sprites for a batch whose middle
\* path has another paint order than its first and last.
C14_Witness ==
    /\ rpc = "submitted"
    /\ batches = <<PathsBatch(<<PathA(1), PathB(2), PathC(1)>>)>>
    /\ \E i \in 1..Len(submitted[1]) :
          /\ submitted[1][i].cmd = "draw"
          /\ submitted[1][i].pipeline = "path_composite_pipeline"
          /\ submitted[1][i].instances = 3

\* C15: for every non-empty MonochromeSprites or PolychromeSprites batch,
\* draw issues draw work for its sprites at the batch's position in the
\* batch order: the step that handles the batch records a draw of its
\* sprite instances; the batch is never skipped.
C15_SpriteBatchesDrawn ==
    [][ ( /\ rpc = "inner_loop"
          /\ batch_idx < Len(batches)
          /\ batches[batch_idx + 1].kind \in {"MonochromeSprites", "PolychromeSprites"}
          /\ batches[batch_idx + 1].len > 0 )
        => /\ Len(encoder'[1]) > Len(encoder[1])
           /\ encoder'[1][Len(encoder'[1])].cmd = "draw"
           /\ encoder'[1][Len(encoder'[1])].instances = batches[batch_idx + 1].len ]_vars

\* A frame whose scene is one MonochromeSprites batch of one sprite has
\* been submitted without any draw.
C15_Witness ==
    /\ rpc = "submitted"
    /\ batches = <<Batch("MonochromeSprites", 1)>>
    /\ DrawsOf(submitted[1]) = <<>>

(***************************************************************************)
(* Properties of glyph rasterisation (checked under SpecRaster).           *)
(***************************************************************************)
\* The glyph of `params` has no contours: the face reports no bounds for it.
NoContours(params) ==
    /\ params.font_id < Len(fonts)
    /\ GlyphMetricsBounds(fonts[params.font_id + 1].bytes, params) = None

ZeroArea(bounds) == bounds.size.width = 0 \/ bounds.size.height = 0

AllZero(bytes) == \A i \in 1..Len(bytes) : bytes[i] = 0

\* The step just taken returned from rasterize_glyph, called for a glyph
\* without contours with the bounds glyph_raster_bounds gives for it.
RasterizedEmptyGlyph ==
    /\ ret.op = "rasterize_glyph"
    /\ NoContours(ret.arg.params)
    /\ glyph_raster_bounds(ret.arg.params).tag = "Ok"
    /\ ret.arg.raster_bounds = glyph_raster_bounds(ret.arg.params).val

\* C16: for a glyph with zero contours glyph_raster_bounds returns Ok with
\* zero-area bounds, and rasterize_glyph called for that glyph with those
\* bounds returns Ok with an all-zero buffer of the size it reports, not an
\* error.
C16_EmptyGlyphRasterizes ==
    /\ (ret.op = "glyph_raster_bounds" /\ NoContours(ret.arg))
          => (ret.val.tag = "Ok" /\ ZeroArea(ret.val.val))
    /\ RasterizedEmptyGlyph
          => /\ ret.val.tag = "Ok"
             /\ AllZero(ret.val.val.bytes)
             /\ Len(ret.val.val.bytes) =
                    ret.val.val.size.width * ret.val.val.size.height
                        * (IF ret.arg.params.is_emoji THEN 4 ELSE 1)

\* A rasterize_glyph call for the space glyph, with the zero-area bounds
\* glyph_raster_bounds gave for it, has returned.
C16_Witness ==
    /\ RasterizedEmptyGlyph
    /\ ret.arg.params.glyph_id = GlyphSpace
    /\ ZeroArea(ret.arg.raster_bounds)

(***************************************************************************)
(* Properties of the text-system lock (checked under SpecText).            *)
(***************************************************************************)
\* Thread t is inside font_id's lookup for a Font that is already resolved.
InResolvedLookup(t) ==
    /\ tpc[t] = "font_id_lookup"
    /\ font_selections[targ[t]] # None

\* C17: font_id calls for already-resolved Fonts never block each other:
\* while one thread is inside the lookup, an idle thread's font_id call on a
\* resolved Font can take its lock too and join it in the lookup.
C17_ResolvedLookupsNeverBlock ==
    \A t \in TextThreads : \A u \in TextThreads \ {t} :
        \A font \in RaceFontKeys :
            (InResolvedLookup(t) /\ tpc[u] = "idle" /\ font_selections[font] # None)
                => ENABLED FontIdLock(u, font)

\* One thread is inside the lookup for a resolved Font while another thread,
\* idle, is about to ask for a resolved Font.
C17_Witness ==
    \E t \in TextThreads : \E u \in TextThreads \ {t} :
        /\ InResolvedLookup(t)
        /\ tpc[u] = "idle"
        /\ rw_upgradable = t
        /\ \E font \in RaceFontKeys : font_selections[font] # None

\* Thread t is at a position of an operation where it holds a guard of the
\* lock: the positions between taking the guard and returning.
HoldsLockAt(t) ==
    tpc[t] \in { "font_id_lookup", "font_id_upgrade", "font_id_resolve",
                 "add_fonts_write",
                 "glyph_query_read", "glyph_raster_bounds_read",
                 "rasterize_glyph_read", "layout_line_shape" }

\* C18: while a layout_line call on non-empty text with a non-empty run list
\* is shaping, it holds the lock exclusively: no other layout_line, font_id,
\* add_fonts or glyph query holds any guard of the lock at the same time.
C18_ShapingIsExclusive ==
    \A t \in TextThreads :
        tpc[t] = "layout_line_shape"
            => /\ rw_writer = t
               /\ LockHolders = {t}
               /\ \A u \in TextThreads \ {t} : ~HoldsLockAt(u)

\* One thread is shaping while the other has resolved fonts before and now
\* waits outside the lock.
C18_Witness ==
    \E t \in TextThreads :
        /\ tpc[t] = "layout_line_shape"
        /\ targ[t].text # <<>>
        /\ targ[t].font_runs # <<>>
        /\ Len(fonts) >= 2

(***************************************************************************)
(* Properties of the atlas mutex (checked under SpecAtlas).                *)
(***************************************************************************)
\* Thread t has left the lookup with a miss and its build has not returned.
Building(t) == apc[t] = "get_build"

\* C19: no thread holds the atlas mutex while its build runs, so another
\* thread's remove or get_or_insert_with on any key can take the mutex and
\* complete during the build.
C19_BuildRunsUnlocked ==
    \A t \in AtlasThreads :
        Building(t)
            => /\ mutex # t
               /\ \A u \in AtlasThreads \ {t} :
                    /\ (apc[u] = "idle" /\ mutex = NoThread)
                          => \A key \in AtlasKeys : ENABLED RemoveLock(u, key)
                    /\ apc[u] = "remove_locked" => ENABLED Remove(u)
                    /\ apc[u] = "get_lookup" => ENABLED GetLookup(u)
                    /\ apc[u] = "get_insert" => ENABLED GetInsert(u)

\* While one thread's build is running, another thread's call on the same
\* key has just completed.
C19_Witness ==
    \E t \in AtlasThreads :
        /\ Building(t)
        /\ ret.op \in {"remove", "get_or_insert_with"}
        /\ ret.thread # t
        /\ ret.arg = akey[t]

(***************************************************************************)
(* Properties of the frame's command encoder (checked under SpecRender).   *)
(***************************************************************************)
\* Sequence s is an initial part of sequence q.
IsPrefix(s, q) == Len(s) <= Len(q) /\ SubSeq(q, 1, Len(s)) = s

\* A draw call is between opening its encoder and submitting it.
Recording(pc) == pc \notin {"idle", "submitted"}

\* C20: every draw opens exactly one command encoder, records all of its
\* passes into that encoder, and submits exactly once, after the last batch
\* has been processed; this holds for every scene, the empty one and one
\* ending with a Paths batch included.
C20_OneEncoderOneSubmit ==
    [][ /\ rpc' # "idle" => encoders_opened' = 1
        /\ Recording(rpc') => (submitted' = <<>> /\ encoder' # None)
        /\ (Recording(rpc) /\ Recording(rpc')) => IsPrefix(encoder[1], encoder'[1])
        /\ rpc' = "submitted"
              => /\ Recording(rpc)
                 /\ submitted' = <<encoder[1]>>
                 /\ batch_idx' = Len(batches')
                 /\ batches' = batches ]_vars

\* A frame whose scene ends with a Paths batch has been submitted, main
\* pass and path passes in its one command buffer.
C20_Witness ==
    /\ rpc = "submitted"
    /\ Len(batches) >= 2
    /\ batches[Len(batches)].kind = "Paths"
    /\ Len(submitted) = 1
    /\ encoders_opened = 1
    /\ Cardinality({i \in 1..Len(submitted[1]) : submitted[1][i].cmd = "begin_render_pass"}) >= 3

(***************************************************************************)
(* Properties of the frame's render passes (checked under SpecRender).     *)
(***************************************************************************)
\* Command i of the command list begins a pass that writes the target.
BeginsTargetPass(cmds, i) ==
    /\ cmds[i].cmd = "begin_render_pass"
    /\ cmds[i].label \in {"scene_render_pass", "path_composite_pass"}

\* The positions of the draws recorded in a command list.
DrawPositions(cmds) == {i \in 1..Len(cmds) : cmds[i].cmd = "draw"}

\* Only the first command may clear the target, and it is a main pass; every
\* other pass on the target loads.
ClearsOnlyFirst(cmds) ==
    \A i \in 1..Len(cmds) :
        BeginsTargetPass(cmds, i)
            => /\ cmds[i].view = "target"
               /\ cmds[i].load = (IF i = 1 THEN "Clear" ELSE "Load")
               /\ i = 1 => cmds[i].label = "scene_render_pass"

\* C21: within one draw the target is cleared at most once, by the first
\* main pass, which comes before every draw and every path composite; every
\* later pass on the target (a reopened main pass, a path composite) loads;
\* and a main pass is opened only while batches remain.
C21_TargetClearedOnce ==
    [][ /\ rpc' = "submitted"
            => /\ ClearsOnlyFirst(submitted'[1])
               /\ Cardinality({i \in 1..Len(submitted'[1]) :
                                 /\ BeginsTargetPass(submitted'[1], i)
                                 /\ submitted'[1][i].load = "Clear"}) <= 1
               /\ \A i \in DrawPositions(submitted'[1]) :
                     BeginsTargetPass(submitted'[1], 1) /\ 1 < i
        /\ (rpc = "outer_loop" /\ rpc' = "inner_loop")
            => /\ batch_idx < Len(batches)
               /\ encoder'[1] = Append(encoder[1],
                      BeginPass("scene_render_pass", "target",
                                IF encoder[1] = <<>> THEN "Clear" ELSE "Load")) ]_vars

\* A submitted frame whose main pass was reopened after a Paths batch: two
\* main passes and a path composite on the target.
C21_Witness ==
    /\ rpc = "submitted"
    /\ Len(submitted) = 1
    /\ Cardinality({i \in 1..Len(submitted[1]) :
                      /\ submitted[1][i].cmd = "begin_render_pass"
                      /\ submitted[1][i].label = "scene_render_pass"}) >= 2
    /\ \E i \in 1..Len(submitted[1]) :
          /\ submitted[1][i].cmd = "begin_render_pass"
          /\ submitted[1][i].label = "path_composite_pass"
    /\ Cardinality(DrawPositions(submitted[1])) >= 4

\* The path rasterize passes among the commands a step appended to the
\* encoder.
NewRasterPasses ==
    {i \in (Len(encoder[1]) + 1)..Len(encoder'[1]) :
        /\ encoder'[1][i].cmd = "begin_render_pass"
        /\ encoder'[1][i].label = "path_rasterization_pass"}

\* The step processes a Paths batch that holds at least one path.
DrawsNonEmptyPaths ==
    /\ rpc = "after_pass"
    /\ batch_idx < Len(batches)
    /\ IF batch_idx < Len(batches)
       THEN batches[batch_idx + 1].kind = "Paths" /\ batches[batch_idx + 1].paths # <<>>
       ELSE FALSE

\* C22: across draw calls the intermediate path texture is allocated only
\* when a non-empty Paths batch is drawn and none exists or the existing
\* one's size differs from the viewport; with an unchanged size the existing
\* texture is reused; and whenever a path rasterize pass is recorded the
\* intermediate texture has the size of that draw's viewport.
C22_IntermediateFollowsViewport ==
    [][ /\ (Len(created') > Len(created) \/ path_intermediate' # path_intermediate)
            => /\ DrawsNonEmptyPaths
               /\ path_intermediate = None \/ path_intermediate # viewport_size
               /\ created' = Append(created, viewport_size[1])
               /\ path_intermediate' = viewport_size
        /\ (DrawsNonEmptyPaths /\ path_intermediate = viewport_size)
            => (path_intermediate' = path_intermediate /\ created' = created)
        /\ (rpc \notin {"idle", "submitted"} /\ rpc' \notin {"idle", "submitted"})
            => \A i \in NewRasterPasses :
                  /\ path_intermediate' = viewport_size
                  /\ encoder'[1][i].view = [intermediate |-> viewport_size[1]] ]_vars

\* A frame with a path rasterize pass was submitted without allocating: the
\* texture of an earlier draw with the same viewport was reused.
C22_Witness ==
    /\ rpc = "submitted"
    /\ created = <<>>
    /\ path_intermediate = viewport_size
    /\ \E i \in 1..Len(submitted[1]) :
          /\ submitted[1][i].cmd = "begin_render_pass"
          /\ submitted[1][i].label = "path_rasterization_pass"

\* The batch holds no geometry: no instance, no path, or paths without
\* vertices.
EmptyGeometry(batch) ==
    IF batch.kind = "Paths" THEN ~HasVertices(batch.paths)
    ELSE batch.kind \in {"Quads", "Shadows", "Underlines"} /\ batch.len = 0

HoldsGeometry(batch) == ~EmptyGeometry(batch)

\* C23: empty geometry is a no-op, not an error: a Paths batch with no
\* paths, or whose paths all have empty vertex lists, records neither a
\* rasterize nor a composite pass, an empty Quads, Shadows or Underlines
\* batch issues no draw, and the batches that follow are still drawn in
\* order.
C23_EmptyGeometryIsNoOp ==
    [][ /\ ( /\ rpc \in {"inner_loop", "after_pass"}
             /\ batch_idx' = batch_idx + 1
             /\ EmptyGeometry(batches[batch_idx + 1]) )
            => encoder' = encoder
        /\ rpc' = "submitted"
            => /\ batch_idx' = Len(batches)
               /\ WorkOf(submitted'[1]) = SceneWork(SelectSeq(batches, HoldsGeometry)) ]_vars

\* A frame was submitted whose scene has a batch with work after an empty
\* Paths batch or a Paths batch without vertices.
C23_Witness ==
    /\ rpc = "submitted"
    /\ Len(batches) >= 2
    /\ batches[1].kind = "Paths"
    /\ EmptyGeometry(batches[1])
    /\ HoldsGeometry(batches[2])
    /\ WorkOf(submitted[1]) # <<>>

\* raster_bounds.size grown by one pixel on each axis whose subpixel phase
\* is not zero.
ExpandedSize(params, raster_bounds) ==
    Size(raster_bounds.size.width + (IF params.subpixel_variant.x > 0 THEN 1 ELSE 0),
         raster_bounds.size.height + (IF params.subpixel_variant.y > 0 THEN 1 ELSE 0))

\* The step just taken returned from rasterize_glyph called with bounds of
\* non-zero area.
RasterizedNonEmpty ==
    /\ ret.op = "rasterize_glyph"
    /\ ~ZeroArea(ret.arg.raster_bounds)

\* swash has neither outline nor bitmap to render for the glyph of the call.
NothingToRender(params) ==
    SwashRender(fonts[params.font_id + 1].bytes, params) = {None}

\* C24: given bounds of non-zero area, rasterize_glyph returns a size equal
\* to raster_bounds.size plus 1 in width iff subpixel_variant.x > 0 and plus
\* 1 in height iff subpixel_variant.y > 0; and when the glyph has nothing to
\* render the result is Ok with width * height bytes (times 4 for emoji),
\* all zero.
C24_SizeExpandedBySubpixel ==
    RasterizedNonEmpty
        => /\ ret.val.tag = "Ok"
           /\ ret.val.val.size = ExpandedSize(ret.arg.params, ret.arg.raster_bounds)
           /\ NothingToRender(ret.arg.params)
                 => /\ AllZero(ret.val.val.bytes)
                    /\ Len(ret.val.val.bytes) =
                          ret.val.val.size.width * ret.val.val.size.height
                              * (IF ret.arg.params.is_emoji THEN 4 ELSE 1)

\* rasterize_glyph has returned for an outlined glyph at a non-zero
\* horizontal phase, called with the bounds glyph_raster_bounds gives.
C24_Witness ==
    /\ RasterizedNonEmpty
    /\ ret.arg.params.glyph_id = GlyphOutlined
    /\ ~ret.arg.params.is_emoji
    /\ ret.arg.params.subpixel_variant.x > 0
    /\ ret.arg.raster_bounds = glyph_raster_bounds(ret.arg.params).val
    /\ ret.val.tag = "Ok"

(***************************************************************************)
(* Properties of the FontId recovery (checked under SpecLayout).           *)
(***************************************************************************)
\* The indices of the loaded fonts whose sub-index, data length and data
\* pointer all equal those of the shaper's font.
MatchingFonts(parley_font, loaded_fonts) ==
    {i \in 0..(Len(loaded_fonts) - 1) :
        /\ loaded_fonts[i + 1].font_index = parley_font.index
        /\ FileLen(loaded_fonts[i + 1].bytes) = parley_font.len
        /\ loaded_fonts[i + 1].ptr = parley_font.ptr}

\* The first matching index, else the FontId of the first input run.
RecoveredFontId(parley_font, font_runs, loaded_fonts) ==
    LET matching == MatchingFonts(parley_font, loaded_fonts)
    IN  IF matching = {} THEN font_runs[1].font_id
        ELSE CHOOSE i \in matching : \A j \in matching : i <= j

\* FontId and emoji flag of every glyph of the returned ShapedRuns, in order.
RECURSIVE ShapedGlyphFonts(_)
ShapedGlyphFonts(runs) ==
    IF runs = <<>> THEN <<>>
    ELSE [i \in 1..Len(Head(runs).glyphs) |->
             [font_id |-> Head(runs).font_id, is_emoji |-> Head(runs).glyphs[i].is_emoji]]
         \o ShapedGlyphFonts(Tail(runs))

\* For every glyph of the shaper's glyph runs, in order: the FontId recovered
\* for its run and that font's is_emoji flag.
RECURSIVE LayoutGlyphFonts(_, _)
LayoutGlyphFonts(glyph_runs, font_runs) ==
    IF glyph_runs = <<>> THEN <<>>
    ELSE LET font_id == RecoveredFontId(Head(glyph_runs).font, font_runs, fonts)
             count == Len(ClusterGlyphIds(Head(glyph_runs).clusters))
         IN  [i \in 1..count |->
                 [font_id |-> font_id, is_emoji |-> fonts[font_id + 1].is_emoji]]
             \o LayoutGlyphFonts(Tail(glyph_runs), font_runs)

\* Fonts a shaper could report: the collection's own blob of each file, and
\* fonts that share the data pointer of a loaded font, with its length and
\* sub-index or another.
ReportedFonts(loaded_fonts) ==
    {ParleyFont(file) : file \in FontFiles}
    \cup {[ptr |-> loaded_fonts[i].ptr, len |-> FileLen(loaded_fonts[i].bytes) + d, index |-> k] :
             i \in 1..Len(loaded_fonts), d \in {0, 1}, k \in {0, 1}}

\* C26: for every glyph run the shaper reports, the output run's FontId is
\* the index of the first loaded font whose sub-index, data length and data
\* pointer all match the reported font, else the FontId of the first input
\* run; and every glyph of the run carries that font's is_emoji flag.
C26_FontIdRecovered ==
    /\ (ret.op = "layout_line" /\ "layout" \in DOMAIN ret)
          => ShapedGlyphFonts(ret.val.runs) = LayoutGlyphFonts(ret.layout, ret.arg.font_runs)
    /\ \A loaded_fonts \in {fonts, fonts \o fonts} :
          \A parley_font \in ReportedFonts(loaded_fonts) :
             \A first \in 0..(Len(fonts) - 1) :
                LET font_runs == <<FontRun(1, first)>>
                IN  run_font_id_from_parley(parley_font, font_runs, loaded_fonts)
                       = RecoveredFontId(parley_font, font_runs, loaded_fonts)

\* layout_line returned a run for a glyph that the shaper set in the file of
\* loaded font 0 while the first input run names font 1: no loaded font
\* matched, and the run carries FontId 1.
C26_Witness ==
    /\ ret.op = "layout_line"
    /\ "layout" \in DOMAIN ret
    /\ Len(fonts) >= 2
    /\ ret.arg.font_runs[1].font_id = 1
    /\ ret.layout[1].font = ParleyFont(fonts[1].bytes)
    /\ MatchingFonts(ret.layout[1].font, fonts) = {}
    /\ ret.val.runs[1].font_id = 1

(***************************************************************************)
(* Properties of racing and failing font_id calls (checked under SpecText).*)
(***************************************************************************)
\* The threads inside font_id, between taking the guard and returning.
InFontId(pc) ==
    {t \in TextThreads : pc[t] \in {"font_id_lookup", "font_id_upgrade", "font_id_resolve"}}

\* The Fonts the cache maps.
Resolved(selections) == {f \in FontKeys : selections[f] # None}

\* C27: in every interleaving of font_id calls for the same never-resolved
\* Font, resolution of the Font succeeds at most once: resolve_font only
\* runs on a Font the cache does not map, the table holds exactly one entry
\* per mapped Font, a mapping never changes, and all the calls that succeed
\* return the same FontId.
C27_RacingCallsResolveOnce ==
    [][ /\ \A t \in TextThreads :
              ResolveStep(t) => (font_selections[targ[t]] = None /\ issued[targ[t]] = {})
        /\ \A f \in Resolved(font_selections) : font_selections'[f] = font_selections[f]
        /\ Len(fonts') = Cardinality(Resolved(font_selections'))
        /\ \A f \in FontKeys : Cardinality(issued'[f]) <= 1
        /\ \A f \in Resolved(font_selections') :
              \A g \in Resolved(font_selections') \ {f} :
                 font_selections'[f] # font_selections'[g]
        /\ Cardinality(InFontId(tpc')) <= 1 ]_vars

\* One thread is about to resolve a Font the cache does not map while the
\* other thread's font_id call for the same Font has to wait for it.
C27_Witness ==
    \E t \in TextThreads : \E u \in TextThreads \ {t} :
        /\ tpc[t] = "font_id_resolve"
        /\ font_selections[targ[t]] = None
        /\ resolve_font(targ[t]).ret.tag = "Ok"
        /\ tpc[u] = "idle"
        /\ ~ENABLED FontIdLock(u, targ[t])

\* C28: when font_id returns an error the text-system state is unchanged:
\* nothing is appended to the loaded-font table and no mapping is added, so
\* the failure is not memoized, the FontIds issued afterwards are still
\* consecutive, and a later font_id for the same Font runs resolution again.
C28_ErrorLeavesStateUnchanged ==
    [][ /\ (ret'.op = "font_id" /\ ret'.val.tag = "Err")
            => /\ fonts' = fonts
               /\ font_selections' = font_selections
               /\ font_context' = font_context
               /\ issued' = issued
               /\ font_selections'[ret'.arg] = None
        /\ (ret'.op = "font_id" /\ ret'.val.tag = "Ok" /\ Len(fonts') # Len(fonts))
            => ret'.val.val = Len(fonts)
        /\ \A t \in TextThreads :
              (tpc[t] = "font_id_lookup" /\ tpc'[t] # "font_id_lookup"
                 /\ font_selections[targ[t]] = None)
                  => tpc'[t] = "font_id_upgrade" ]_vars

\* font_id has returned an error for a Font, with fonts already loaded, and
\* the cache has no mapping for that Font.
C28_Witness ==
    /\ FontIdReturned
    /\ ret.val.tag = "Err"
    /\ Len(fonts) >= 1
    /\ font_selections[ret.arg] = None
    /\ Cardinality(Resolved(font_selections)) = Len(fonts)

(***************************************************************************)
(* Properties of the tile ids (checked under SpecAtlas).                   *)
(***************************************************************************)
\* The tiles known to have been created: cached, handed out or removed.
KnownTiles(cache, out, gone) ==
    UNION {{cache[k][i] : i \in DOMAIN cache[k]} : k \in AtlasKeys}
    \cup UNION {out[k] : k \in AtlasKeys}
    \cup {r.tile : r \in gone}

\* Thread t takes the insert step of its get_or_insert_with call.
InsertStep(t) == apc[t] = "get_insert" /\ apc'[t] = "idle"

\* C29: no two tiles the atlas ever created share a tile id: the counter
\* advances by two on each inserted tile and by nothing else, it is never
\* reset or decreased by remove, a cache hit or a build that yields nothing,
\* a new tile takes the counter's new value as tile id and that value minus
\* one as texture index, above the ids of all earlier tiles.
C29_TileIdsNeverReused ==
    [][ /\ (\E t \in AtlasThreads : InsertStep(t))
            => /\ next_id' = next_id + 2
               /\ ret'.val.tag = "Ok"
               /\ ret'.val.val[1].tile_id = next_id'
               /\ ret'.val.val[1].texture_id.index = next_id + 1
               /\ \A tile \in KnownTiles(tiles, handed, removed) :
                     tile.tile_id < ret'.val.val[1].tile_id
        /\ ~(\E t \in AtlasThreads : InsertStep(t)) => next_id' = next_id
        /\ \A tile \in KnownTiles(tiles', handed', removed') :
              /\ tile.tile_id <= next_id'
              /\ tile.tile_id = tile.texture_id.index + 1
              /\ \A other \in KnownTiles(tiles', handed', removed') :
                    other.tile_id = tile.tile_id => other = tile ]_vars

\* A key that was removed has been inserted again and got a tile id above
\* the one it had.
C29_Witness ==
    /\ GetReturned
    /\ ret.val.tag = "Ok"
    /\ ret.val.val # None
    /\ ret.val.val[1].tile_id = next_id
    /\ \E r \in removed : r.key = ret.arg /\ r.tile.tile_id < ret.val.val[1].tile_id

\* The texture kind the content of a key calls for: colour for an emoji
\* glyph, coverage otherwise.
KeyTextureKind(key) == IF key.is_emoji THEN "Polychrome" ELSE "Monochrome"

\* C25: the texture id of every tile the atlas returns tells monochrome from
\* polychrome content: a tile created for a polychrome (emoji) key has kind
\* Polychrome and a tile created for a monochrome key has kind Monochrome.
C25_TextureKindFollowsKey ==
    (GetReturned /\ ret.val.tag = "Ok" /\ ret.val.val # None)
        => ret.val.val[1].texture_id.kind = KeyTextureKind(ret.arg)

\* get_or_insert_with has returned a tile for the emoji glyph key.
C25_Witness ==
    /\ GetReturned
    /\ ret.val.tag = "Ok"
    /\ ret.val.val # None
    /\ ret.arg.is_emoji

(***************************************************************************)
(* Termination of the batch loop (checked under SpecRenderFair).           *)
(***************************************************************************)
\* C30: the batch loop of draw terminates for every finite sequence of
\* batches of any kinds: the batch index is larger at the end of every
\* iteration of the outer loop than at its start and never passes the number
\* of batches, the loop exits with the index equal to the number of batches,
\* and every draw that has started reaches its submit.
C30_DrawLoopTerminates ==
    /\ [][ /\ (rpc = "after_pass" /\ rpc' = "outer_loop")
               => (iter_start < batch_idx' /\ batch_idx' <= Len(batches))
           /\ batch_idx' >= batch_idx \/ rpc' \in {"idle", "outer_loop"}
           /\ rpc' = "submitted" => batch_idx' = Len(batches') ]_vars
    /\ (rpc = "outer_loop") ~> (rpc = "submitted")

\* The frame of a scene that begins with two Paths batches has been
\* submitted with all three batches passed.
C30_Witness ==
    /\ rpc = "submitted"
    /\ Len(batches) = 3
    /\ batches[1].kind = "Paths"
    /\ batches[2].kind = "Paths"
    /\ batch_idx = 3

====
